---- MODULE Spec2Model ----
(***************************************************************************)
(* Request orchestration core of better-dev-api: the classification cache, *)
(* the auto classifier and the mode resolver (SpecModes), the attachment   *)
(* extraction pipeline (SpecAttach), the duplicate check of a chat turn    *)
(* (SpecChat) and the image window / image restoration of the model call   *)
(* (SpecVision).                                                           *)
(***************************************************************************)
EXTENDS Integers, Sequences, FiniteSets, TLC

(***************************************************************************)
(* Text.  A string is a sequence of characters; " " is the only whitespace *)
(* character the sample texts use.                                         *)
(***************************************************************************)
Rep(c, n) == [i \in 1..n |-> c]

RECURSIVE TrimStart(_)
TrimStart(s) == IF s # <<>> /\ Head(s) = " " THEN TrimStart(Tail(s)) ELSE s

RECURSIVE TrimEnd(_)
TrimEnd(s) ==
    IF s # <<>> /\ s[Len(s)] = " " THEN TrimEnd(SubSeq(s, 1, Len(s) - 1)) ELSE s

\* String.prototype.trim
Trim(s) == TrimEnd(TrimStart(s))

\* String.prototype.toUpperCase on the letters the sample answers use
UpperOf(ch) ==
    CASE ch = "c" -> "C" [] ch = "o" -> "O" [] ch = "m" -> "M" [] ch = "p" -> "P"
      [] ch = "l" -> "L" [] ch = "e" -> "E" [] ch = "x" -> "X" [] ch = "s" -> "S"
      [] ch = "i" -> "I" [] ch = "n" -> "N" [] ch = "t" -> "T"
      [] OTHER -> ch
toUpperCase(s) == [i \in 1..Len(s) |-> UpperOf(s[i])]

\* String.prototype.includes
includes(s, sub) ==
    \E i \in 0..(Len(s) - Len(sub)) : SubSeq(s, i + 1, i + Len(sub)) = sub

RECURSIVE join(_)
join(ss) == IF ss = <<>> THEN <<>> ELSE Head(ss) \o join(Tail(ss))

(***************************************************************************)
(* Messages and Parts.  A Part carries its type, its text (the empty       *)
(* string when it has none), its image data and its attachment id.         *)
(***************************************************************************)
None == "none"

TextPart(t) == [type |-> "text", text |-> t, image |-> None, attachmentId |-> None]
ImagePart(d) == [type |-> "image", text |-> <<>>, image |-> d, attachmentId |-> None]
FilePart(a, t) == [type |-> "file", text |-> t, image |-> None, attachmentId |-> a]
Msg(r, ps) == [role |-> r, parts |-> ps]

RECURSIVE extractParts(_)
extractParts(ps) ==
    IF ps = <<>> THEN <<>>
    ELSE IF Head(ps).type = "text"
         THEN <<Head(ps).text>> \o extractParts(Tail(ps))
         ELSE extractParts(Tail(ps))

\* MessageUtils.extractText: the text Parts of the message, joined
extractText(m) == join(extractParts(m.parts))

\* messages.filter(m => m.role === 'user')
userMessages(h) == SelectSeq(h, LAMBDA m : m.role = "user")

(***************************************************************************)
(* Bounds and program constants of the mode resolution.                    *)
(***************************************************************************)
MAX_CACHE_SIZE == 2
NumCalls == 1

TTL_MS == 300000
SHORT_QUERY_THRESHOLD == 15
CLASSIFICATION_TIMEOUT_MS == 5000

Calls == 1..NumCalls
\* the instants at which Date.now() is read
\* instants of Date.now(): a start, one after the expiry of an entry set at the
\* start, and one after the timeout of a call begun at the second
Times == {0, TTL_MS + CLASSIFICATION_TIMEOUT_MS, TTL_MS + 2 * CLASSIFICATION_TIMEOUT_MS}

Short == Rep("a", 2)
Almost == Rep("a", SHORT_QUERY_THRESHOLD - 1)
LongA == Rep("a", SHORT_QUERY_THRESHOLD)
LongB == Rep("b", SHORT_QUERY_THRESHOLD)
LongC == Rep("b", SHORT_QUERY_THRESHOLD + 1)
Padded(t) == <<" ">> \o t \o <<" ">>

Histories ==
    {<<Msg("assistant", <<TextPart(LongA)>>)>>,
     <<Msg("user", <<TextPart(Short)>>)>>,
     <<Msg("user", <<TextPart(LongA)>>), Msg("assistant", <<TextPart(LongB)>>),
       Msg("user", <<TextPart(Padded(Almost))>>)>>,
     <<Msg("user", <<TextPart(LongA)>>)>>,
     <<Msg("user", <<TextPart(Short)>>), Msg("assistant", <<TextPart(Short)>>),
       Msg("user", <<ImagePart("img"), TextPart(Padded(LongA))>>)>>,
     <<Msg("user", <<TextPart(LongB)>>), Msg("assistant", <<TextPart(LongA)>>)>>,
     <<Msg("user", <<TextPart(<<"b">>), TextPart(LongB)>>)>>}

Overrides == {None, "fast", "thinking", "auto", "turbo"}

COMPLEX == <<"C", "O", "M", "P", "L", "E", "X">>
Answers ==
    {COMPLEX, <<" ", "C", "o", "m", "p", "l", "e", "x", " ">>,
     <<"S", "I", "M", "P", "L", "E">>, <<"n", "o", "t", " ">> \o COMPLEX}

CacheKeys == {<<"empty">>, <<"md5", LongA>>, <<"md5", LongB>>, <<"md5", LongC>>}
Modes == {"fast", "thinking"}

VARIABLES cache, now, pending, last, op

modeVars == <<cache, now, pending, last, op>>

(***************************************************************************)
(* ClassificationCacheService.  The Map is the sequence of its entries in  *)
(* insertion order.                                                        *)
(***************************************************************************)
\* createHash('md5').update(s).digest('hex')
md5(s) == <<"md5", s>>

\* a key of the text as sent, untrimmed
getCacheKeyUntrimmed(h) ==
    LET us == userMessages(h)
    IN  IF us = <<>> THEN <<"empty">>
        ELSE md5(extractText(us[Len(us)]))

getCacheKey(h) ==
    LET us == userMessages(h)
    IN  IF us = <<>> THEN <<"empty">>
        ELSE md5(Trim(extractText(us[Len(us)])))

indexOf(c, k) ==
    IF \E i \in 1..Len(c) : c[i].key = k
    THEN CHOOSE i \in 1..Len(c) : c[i].key = k
    ELSE 0

remove(c, k) == SelectSeq(c, LAMBDA e : e.key # k)

\* get without the expiry check
getIgnoringExpiry(c, k, t) ==
    LET i == indexOf(c, k)
    IN  IF i = 0 THEN [value |-> None, cache |-> c]
        ELSE [value |-> c[i].mode, cache |-> c]

\* get that makes the entry it returns the most recent one (LRU)
getTouching(c, k, t) ==
    LET i == indexOf(c, k)
    IN  IF i = 0 THEN [value |-> None, cache |-> c]
        ELSE IF t > c[i].expiresAt THEN [value |-> None, cache |-> remove(c, k)]
        ELSE [value |-> c[i].mode, cache |-> Append(remove(c, k), c[i])]

\* get(key): the value returned and the Map after the call
get(c, k, t) ==
    LET i == indexOf(c, k)
    IN  IF i = 0 THEN [value |-> None, cache |-> c]
        ELSE IF t > c[i].expiresAt THEN [value |-> None, cache |-> remove(c, k)]
        ELSE [value |-> c[i].mode, cache |-> c]

\* set with an expiry at the instant of the call
setExpiringAtOnce(c, k, m, t) ==
    LET c1 == IF Len(c) >= MAX_CACHE_SIZE THEN Tail(c) ELSE c
        e  == [key |-> k, mode |-> m, expiresAt |-> t]
        i  == indexOf(c1, k)
    IN  IF i = 0 THEN Append(c1, e) ELSE [c1 EXCEPT ![i] = e]

\* set without the eviction of the oldest entry
setWithoutEviction(c, k, m, t) ==
    LET e == [key |-> k, mode |-> m, expiresAt |-> t + TTL_MS]
        i == indexOf(c, k)
    IN  IF i = 0 THEN Append(c, e) ELSE [c EXCEPT ![i] = e]

\* set(key, mode): the Map after the call (the keys of getCacheKey are non-empty
\* strings, so `if (firstKey)` holds whenever the Map has a first key)
set(c, k, m, t) ==
    LET c1 == IF Len(c) >= MAX_CACHE_SIZE THEN Tail(c) ELSE c
        e  == [key |-> k, mode |-> m, expiresAt |-> t + TTL_MS]
        i  == indexOf(c1, k)
    IN  IF i = 0 THEN Append(c1, e) ELSE [c1 EXCEPT ![i] = e]

cleanExpired(c, t) == SelectSeq(c, LAMBDA e : ~(t > e.expiresAt))

(***************************************************************************)
(* AutoClassifierService and ModeResolverService.  A call of resolveMode   *)
(* runs without interruption up to the await of the classification model   *)
(* call (pending, with the deadline of the timer of classifyWithTimeout);   *)
(* the answer, the error or the timeout resumes it.  last                  *)
(* is the call that returned most recently:                                *)
(*   effective: the mode it returned; brief: its query was shorter than    *)
(*   SHORT_QUERY_THRESHOLD after trimming, or there was no user message    *)
(*   classified, gets, sets, modelCalls: what the call invoked             *)
(*   lookup: the mode stored live under the query's key when the call      *)
(*           looked it up; ownChange: the call's own steps changed the     *)
(*           Map; lazyOnly: they changed it by lazy expiry of the query's  *)
(*           key at most                                                   *)
(*   pending[c].query: the trimmed text the call is classifying            *)
(***************************************************************************)
NoCall ==
    [requested |-> None, effective |-> None, outcome |-> None, brief |-> FALSE,
     classified |-> 0, gets |-> 0, sets |-> 0, modelCalls |-> 0,
     lookup |-> None, ownChange |-> FALSE, lazyOnly |-> TRUE]

Idle ==
    [pc |-> "idle", key |-> <<"empty">>, deadline |-> 0, requested |-> None,
     brief |-> FALSE, lookup |-> None, ownChange |-> FALSE, lazyOnly |-> TRUE,
     query |-> <<>>]

\* the latest user text of a history, trimmed (the empty string if there is none)
TrimmedQuery(h) ==
    LET us == userMessages(h)
    IN  IF us = <<>> THEN <<>> ELSE Trim(extractText(us[Len(us)]))

liveMode(c, k, t) ==
    IF \E i \in 1..Len(c) : c[i].key = k /\ ~(t > c[i].expiresAt)
    THEN (CHOOSE e \in {c[i] : i \in 1..Len(c)} : e.key = k).mode
    ELSE None

withoutExpired(c, k, t) == SelectSeq(c, LAMBDA e : ~(e.key = k /\ t > e.expiresAt))

\* the length test on the text as sent, untrimmed
isShortQueryUntrimmed(query) == Len(query) < SHORT_QUERY_THRESHOLD

\* query.trim().length < SHORT_QUERY_THRESHOLD
isShortQuery(query) == Len(Trim(query)) < SHORT_QUERY_THRESHOLD

\* classify, up to its return or its await of the model call
classify(c, h, requestedMode) ==
    LET us    == userMessages(h)
        base  == [NoCall EXCEPT !.requested = requestedMode, !.classified = 1,
                                !.brief = Len(TrimmedQuery(h)) < SHORT_QUERY_THRESHOLD]
        found == liveMode(cache, md5(TrimmedQuery(h)), now)
        query == extractText(us[Len(us)])
        key   == getCacheKey(h)
        r     == get(cache, key, now)
        own   == r.cache # cache
        lazy  == r.cache = withoutExpired(cache, md5(TrimmedQuery(h)), now)
    IN  IF us = <<>>
        THEN /\ last' = [base EXCEPT !.effective = "fast", !.outcome = "noUser"]
             /\ UNCHANGED <<cache, pending>>
        ELSE IF isShortQuery(query)
        THEN /\ last' = [base EXCEPT !.effective = "fast", !.outcome = "short"]
             /\ UNCHANGED <<cache, pending>>
        ELSE /\ cache' = r.cache
             /\ IF r.value # None
                THEN /\ last' = [base EXCEPT !.effective = r.value, !.outcome = "hit",
                                     !.gets = 1, !.lookup = found,
                                     !.ownChange = own, !.lazyOnly = lazy]
                     /\ UNCHANGED pending
                ELSE /\ pending' = [pending EXCEPT ![c] =
                            [pc |-> "awaitModel", key |-> key,
                             deadline |-> now + CLASSIFICATION_TIMEOUT_MS,
                             requested |-> requestedMode, brief |-> base.brief,
                             lookup |-> found, ownChange |-> own, lazyOnly |-> lazy,
                             query |-> TrimmedQuery(h)]]
                     /\ UNCHANGED last

\* a resolver that classifies whatever was requested
resolveEffectiveModeClassifying(c, requestedMode, h) == classify(c, h, requestedMode)

resolveEffectiveMode(c, requestedMode, h) ==
    IF requestedMode = "fast" \/ requestedMode = "thinking"
    THEN /\ last' = [NoCall EXCEPT !.requested = requestedMode,
                                   !.effective = requestedMode, !.outcome = "concrete"]
         /\ UNCHANGED <<cache, pending>>
    ELSE IF requestedMode = "auto"
    THEN classify(c, h, requestedMode)
    ELSE /\ last' = [NoCall EXCEPT !.requested = requestedMode,
                                   !.effective = "fast", !.outcome = "unknown"]
         /\ UNCHANGED <<cache, pending>>

\* modeOverride taken as it comes, then `modeOverride || 'auto'`
requestedModeOfUnvalidated(modeOverride) ==
    IF modeOverride # None /\ modeOverride # "" THEN modeOverride ELSE "auto"

\* modeOverride after validation, then `modeOverride || 'auto'`
requestedModeOf(modeOverride) ==
    LET truthy   == modeOverride # None /\ modeOverride # ""
        override == IF truthy /\ modeOverride \notin {"fast", "thinking", "auto"}
                    THEN "auto" ELSE modeOverride
    IN  IF override # None /\ override # "" THEN override ELSE "auto"

resolveMode(c, h, modeOverride) ==
    /\ pending[c].pc = "idle"
    /\ resolveEffectiveMode(c, requestedModeOf(modeOverride), h)
    /\ UNCHANGED <<now, op>>

\* what a call that awaited the model reports when it returns
returned(p, effective, outcome, didSet) ==
    [NoCall EXCEPT !.requested = p.requested, !.effective = effective, !.outcome = outcome,
                   !.brief = p.brief, !.lookup = p.lookup,
                   !.classified = 1, !.gets = 1, !.modelCalls = 1,
                   !.sets = IF didSet THEN 1 ELSE 0,
                   !.ownChange = p.ownChange \/ didSet,
                   !.lazyOnly = p.lazyOnly /\ ~didSet]

\* a decision that looks for COMPLEX as written, in upper case only
classifyAnswerCaseSensitive(c, response) ==
    /\ pending[c].pc = "awaitModel"
    /\ now <= pending[c].deadline
    /\ LET isComplex == includes(Trim(response), COMPLEX)
           result    == IF isComplex THEN "thinking" ELSE "fast"
       IN  /\ cache' = set(cache, pending[c].key, result, now)
           /\ last' = returned(pending[c], result, "answer", TRUE)
    /\ pending' = [pending EXCEPT ![c] = Idle]
    /\ UNCHANGED <<now, op>>

\* the model answered before the timeout: derive, cache and return the decision
classifyAnswer(c, response) ==
    /\ pending[c].pc = "awaitModel"
    /\ now <= pending[c].deadline
    /\ LET isComplex == includes(toUpperCase(Trim(response)), COMPLEX)
           result    == IF isComplex THEN "thinking" ELSE "fast"
       IN  /\ cache' = set(cache, pending[c].key, result, now)
           /\ last' = returned(pending[c], result, "answer", TRUE)
    /\ pending' = [pending EXCEPT ![c] = Idle]
    /\ UNCHANGED <<now, op>>

\* a catch block that caches the fallback
classifyErrorCaching(c) ==
    /\ pending[c].pc = "awaitModel"
    /\ now <= pending[c].deadline
    /\ cache' = set(cache, pending[c].key, "fast", now)
    /\ last' = returned(pending[c], "fast", "error", TRUE)
    /\ pending' = [pending EXCEPT ![c] = Idle]
    /\ UNCHANGED <<now, op>>

\* generateResponse threw: the catch block returns fast
classifyError(c) ==
    /\ pending[c].pc = "awaitModel"
    /\ now <= pending[c].deadline
    /\ last' = returned(pending[c], "fast", "error", FALSE)
    /\ pending' = [pending EXCEPT ![c] = Idle]
    /\ UNCHANGED <<cache, now, op>>

\* the timer of classifyWithTimeout rejected first: the catch block returns fast
classifyTimeout(c) ==
    /\ pending[c].pc = "awaitModel"
    /\ now >= pending[c].deadline
    /\ last' = returned(pending[c], "fast", "timeout", FALSE)
    /\ pending' = [pending EXCEPT ![c] = Idle]
    /\ UNCHANGED <<cache, now, op>>

\* the setInterval callback of the constructor
sweep ==
    /\ cache' = cleanExpired(cache, now)
    /\ UNCHANGED <<now, pending, last, op>>

\* Date.now() advances
tick(t) ==
    /\ t > now
    /\ now' = t
    /\ UNCHANGED <<cache, pending, last, op>>

(***************************************************************************)
(* The cache used directly through its get/set contract.  op is the last   *)
(* call: its name, key and value, and whether the Map was full and held    *)
(* the key when the call began.  For a get: stale says the Map held the    *)
(* key with an expiry before now; follows says the call before it was a    *)
(* set of the same key, expected is the mode of that set and elapsed the   *)
(* time since.                                                             *)
(***************************************************************************)
NoOp ==
    [name |-> None, key |-> <<"empty">>, value |-> None, full |-> FALSE, present |-> FALSE,
     at |-> 0, stale |-> FALSE, follows |-> FALSE, expected |-> None, elapsed |-> 0]

cacheGet(k) ==
    /\ cache' = get(cache, k, now).cache
    /\ op' = [name |-> "get", key |-> k, value |-> get(cache, k, now).value,
              full |-> Len(cache) >= MAX_CACHE_SIZE, present |-> indexOf(cache, k) # 0,
              at |-> now,
              stale |-> \E i \in 1..Len(cache) : cache[i].key = k /\ now > cache[i].expiresAt,
              follows |-> (op.name = "set" /\ op.key = k),
              expected |-> IF op.name = "set" /\ op.key = k THEN op.value ELSE None,
              elapsed |-> IF op.name = "set" /\ op.key = k THEN now - op.at ELSE 0]
    /\ UNCHANGED <<now, pending, last>>

cacheSet(k, m) ==
    /\ cache' = set(cache, k, m, now)
    /\ op' = [NoOp EXCEPT !.name = "set", !.key = k, !.value = m,
                          !.full = Len(cache) >= MAX_CACHE_SIZE,
                          !.present = indexOf(cache, k) # 0, !.at = now]
    /\ UNCHANGED <<now, pending, last>>

(***************************************************************************)
(* AttachmentService and FileProcessorService.                             *)
(*   atts[a]: the Attachment row (exists: "no" before upload, "yes", or    *)
(*            "deleted"); seen: the statuses the row has been written with *)
(*   jobs[a]: the processFileAsync call of the upload                      *)
(*     returned:  the extractionStatus of the Attachment that upload       *)
(*                returned to its caller, None while it has not returned   *)
(*     ocrFailed: sharp produced the thumbnail and the OCR threw           *)
(*     rejected:  a storage or repository call awaited by the job rejected *)
(*   stored:  the objects of the storage backend                           *)
(***************************************************************************)
NumAtts == 1
AttIds == 1..NumAtts

FileTypes == {"image", "pdf", "document", "video", "audio"}

NoProcessed == [extractedText |-> "", error |-> FALSE, thumbnailBuffer |-> FALSE]

NoAtt ==
    [exists |-> "no", fileType |-> None, status |-> None, extractedText |-> "",
     metadataError |-> FALSE, thumbnailUrl |-> FALSE, seen |-> <<>>]

NoJob ==
    [pc |-> "none", processed |-> NoProcessed, threw |-> FALSE, thumbnailUrl |-> FALSE,
     returned |-> None, ocrFailed |-> FALSE, rejected |-> FALSE]

VARIABLES atts, jobs, stored

attachVars == <<atts, jobs, stored>>

\* repository.update(id, {extractionStatus, ...}): no row, no effect
updateStatus(row, status) ==
    IF row.exists = "yes"
    THEN [row EXCEPT !.status = status, !.seen = Append(@, status)]
    ELSE row

\* a processImage whose OCR is not inside a try of its own
processImageStrict(thumbOk, ocrOk) ==
    IF ~thumbOk \/ ~ocrOk THEN [threw |-> TRUE, value |-> NoProcessed]
    ELSE [threw |-> FALSE,
          value |-> [extractedText |-> "text", error |-> FALSE, thumbnailBuffer |-> TRUE]]

\* FileProcessorService.processImage: sharp, then OCR inside its own try
processImage(thumbOk, ocrOk) ==
    IF ~thumbOk THEN [threw |-> TRUE, value |-> NoProcessed]
    ELSE [threw |-> FALSE,
          value |-> [extractedText |-> IF ocrOk THEN "text" ELSE "",
                     error |-> ~ocrOk, thumbnailBuffer |-> TRUE]]

\* FileProcessorService.processPDF: logs and rethrows what pdf-parse threw
processPDF(parseOk) ==
    IF parseOk
    THEN [threw |-> FALSE,
          value |-> [extractedText |-> "text", error |-> FALSE, thumbnailBuffer |-> FALSE]]
    ELSE [threw |-> TRUE, value |-> NoProcessed]

\* FileProcessorService.processDocument: mammoth
processDocument(parseOk) ==
    IF parseOk
    THEN [threw |-> FALSE,
          value |-> [extractedText |-> "text", error |-> FALSE, thumbnailBuffer |-> FALSE]]
    ELSE [threw |-> TRUE, value |-> NoProcessed]

\* FileProcessorService.process: the switch inside try, and its catch
process(fileType, thumbOk, extractOk) ==
    LET r == CASE fileType = "image" -> processImage(thumbOk, extractOk)
               [] fileType = "pdf" -> processPDF(extractOk)
               [] fileType = "document" -> processDocument(extractOk)
               [] OTHER -> [threw |-> FALSE, value |-> NoProcessed]
    IN  IF r.threw
        THEN [extractedText |-> "", error |-> TRUE, thumbnailBuffer |-> FALSE]
        ELSE r.value

\* an upload that awaits processFileAsync before it returns
uploadAwaiting(a, fileType) ==
    /\ atts[a].exists = "no"
    /\ \A b \in AttIds : b < a => atts[b].exists # "no"
    /\ stored' = stored \cup {<<"file", a>>}
    /\ atts' = [atts EXCEPT ![a] =
            [NoAtt EXCEPT !.exists = "yes", !.fileType = fileType,
                          !.status = "pending", !.seen = <<"pending">>]]
    /\ jobs' = [jobs EXCEPT ![a] = [NoJob EXCEPT !.pc = "start"]]

\* upload: the bytes are stored, the row is saved PENDING, processFileAsync is
\* started and not awaited
upload(a, fileType) ==
    /\ atts[a].exists = "no"
    /\ \A b \in AttIds : b < a => atts[b].exists # "no"
    /\ stored' = stored \cup {<<"file", a>>}
    /\ atts' = [atts EXCEPT ![a] =
            [NoAtt EXCEPT !.exists = "yes", !.fileType = fileType,
                          !.status = "pending", !.seen = <<"pending">>]]
    /\ jobs' = [jobs EXCEPT ![a] = [NoJob EXCEPT !.pc = "start", !.returned = "pending"]]

\* processFileAsync: update to PROCESSING (the update may reject)
jobBegin(a, ok) ==
    /\ jobs[a].pc = "start"
    /\ IF ok
       THEN /\ atts' = [atts EXCEPT ![a] = updateStatus(@, "processing")]
            /\ jobs' = [jobs EXCEPT ![a].pc = "process"]
       ELSE /\ jobs' = [jobs EXCEPT ![a].pc = "catch", ![a].rejected = TRUE]
            /\ UNCHANGED atts
    /\ UNCHANGED stored

\* processFileAsync: await fileProcessorService.process(...)
jobProcess(a, thumbOk, extractOk) ==
    /\ jobs[a].pc = "process"
    /\ LET processed == process(atts[a].fileType, thumbOk, extractOk)
       IN  jobs' = [jobs EXCEPT ![a].processed = processed,
                                ![a].threw = (atts[a].fileType \in {"pdf", "document"}
                                              /\ ~extractOk),
                                ![a].ocrFailed = (atts[a].fileType = "image"
                                                  /\ thumbOk /\ ~extractOk),
                                ![a].pc = IF processed.thumbnailBuffer
                                          THEN "findOne" ELSE "final"]
    /\ UNCHANGED <<atts, stored>>

\* processFileAsync: findOne before the thumbnail upload
jobFindOne(a) ==
    /\ jobs[a].pc = "findOne"
    /\ jobs' = [jobs EXCEPT ![a].pc = IF atts[a].exists = "yes"
                                      THEN "uploadThumbnail" ELSE "final"]
    /\ UNCHANGED <<atts, stored>>

\* processFileAsync: storageService.upload(thumbnailFile) (may reject)
jobUploadThumbnail(a, ok) ==
    /\ jobs[a].pc = "uploadThumbnail"
    /\ IF ok
       THEN /\ stored' = stored \cup {<<"thumbnail", a>>}
            /\ jobs' = [jobs EXCEPT ![a].pc = "final", ![a].thumbnailUrl = TRUE]
       ELSE /\ jobs' = [jobs EXCEPT ![a].pc = "catch", ![a].rejected = TRUE]
            /\ UNCHANGED stored
    /\ UNCHANGED atts

\* processFileAsync: update with the processed data and SUCCESS (may reject)
jobFinish(a, ok) ==
    /\ jobs[a].pc = "final"
    /\ IF ok
       THEN /\ atts' = [atts EXCEPT ![a] =
                    IF @.exists = "yes"
                    THEN [updateStatus(@, "success") EXCEPT
                              !.extractedText = jobs[a].processed.extractedText,
                              !.metadataError = jobs[a].processed.error,
                              !.thumbnailUrl = jobs[a].thumbnailUrl]
                    ELSE @]
            /\ jobs' = [jobs EXCEPT ![a].pc = "done"]
       ELSE /\ jobs' = [jobs EXCEPT ![a].pc = "catch", ![a].rejected = TRUE]
            /\ UNCHANGED atts
    /\ UNCHANGED stored

\* a catch block that queues the attachment again after marking it FAILED
jobCatchRetrying(a, ok) ==
    /\ jobs[a].pc = "catch"
    /\ atts' = [atts EXCEPT ![a] =
            IF ok /\ @.exists = "yes"
            THEN updateStatus(updateStatus(@, "failed"), "pending")
            ELSE @]
    /\ jobs' = [jobs EXCEPT ![a].pc = IF Len(atts[a].seen) < 4 THEN "start" ELSE "done"]
    /\ UNCHANGED stored

\* a catch block that only logs the error
jobCatchLogging(a, ok) ==
    /\ jobs[a].pc = "catch"
    /\ jobs' = [jobs EXCEPT ![a].pc = "done"]
    /\ UNCHANGED <<atts, stored>>

\* processFileAsync: the catch block updates to FAILED (the update may reject)
jobCatch(a, ok) ==
    /\ jobs[a].pc = "catch"
    /\ atts' = [atts EXCEPT ![a] =
            IF ok /\ @.exists = "yes"
            THEN [updateStatus(@, "failed") EXCEPT !.metadataError = TRUE]
            ELSE @]
    /\ jobs' = [jobs EXCEPT ![a].pc = "done"]
    /\ UNCHANGED stored

\* deleteAttachment by the owner: storage object, thumbnail if the row has one, row
deleteAttachment(a) ==
    /\ atts[a].exists = "yes"
    /\ stored' = (stored \ {<<"file", a>>})
                    \ (IF atts[a].thumbnailUrl THEN {<<"thumbnail", a>>} ELSE {})
    /\ atts' = [atts EXCEPT ![a].exists = "deleted"]
    /\ UNCHANGED jobs

(***************************************************************************)
(* ChatService.  One conversation, "c1", owned by "u1"; "c0" never exists. *)
(*   convs: the conversations created so far                               *)
(*   db:    the rows of the messages table in creation order               *)
(*   turns[t]: a call of handleStreamingResponse, between its awaits       *)
(*     dupSeen:   the incoming text equalled the content of the latest     *)
(*                user row when the call read it                           *)
(*     savedUser: the call has saved a user row                            *)
(*     resolved:  the pair resolveMode returned to the call                *)
(*     metadata:  baseMetadata, which onFinish persists                    *)
(*     rowsAtStart: the number of rows when the call began                 *)
(*     userIndex: the position in db of the user row of the turn (the row  *)
(*                it saved, or the row it was found a duplicate of)        *)
(*     streamCalls, config: the streamText calls the turn has made and the *)
(*                key of MODE_CONFIG whose settings the call carried       *)
(*   failure: the call of handleStreamingResponse that failed last:        *)
(*            thrown is the exception raised inside its try block, error   *)
(*            the exception its caller received                            *)
(*   finished: the stream that ended last: how it ended, whether the model *)
(*            had produced content, whether onFinish ran, the save         *)
(*            attempts it made and how many of them failed, the rows it    *)
(*            added, whether the added row is an assistant row behind the  *)
(*            user row of the turn, whether it carries the metadata of the *)
(*            turn, and whether updatedAt advanced                         *)
(*   updatedAt: the updatedAt column of the conversation, as a count of    *)
(*            the writes that set it                                       *)
(***************************************************************************)
NumTurns == 2
MaxRows == 5
TurnIds == 1..NumTurns

ConvIds == {"c0", "c1"}
Users == {"u1", "u2"}
ownerOf(conv) == "u1"

X == <<"x">>
Y == <<"y">>

\* an incoming message: parts, or a legacy content string and no parts
Incoming(ps, content) == [role |-> "user", parts |-> ps, content |-> content]

Inputs ==
    {Incoming(<<TextPart(X)>>, <<>>), Incoming(<<TextPart(X), ImagePart("img")>>, <<>>),
     Incoming(<<TextPart(Y)>>, <<>>), Incoming(<<>>, X), Incoming(<<ImagePart("img")>>, <<>>)}

\* a normalize that takes the fallback branch for every message without parts
normalizeEmpty(m) ==
    IF m.parts # <<>> THEN Msg(m.role, m.parts) ELSE Msg(m.role, <<TextPart(<<>>)>>)

\* MessageUtils.normalize (a message without content has content "")
normalize(m) ==
    IF m.parts # <<>> THEN Msg(m.role, m.parts) ELSE Msg(m.role, <<TextPart(m.content)>>)

Row(conv, m) ==
    [conversationId |-> conv, role |-> m.role, content |-> extractText(m), parts |-> m.parts,
     metadata |-> None]

NoMetadata == [operationalMode |-> None, effectiveMode |-> None]
NoPair == [requested |-> None, effective |-> None]

NoTurn ==
    [pc |-> "idle", conv |-> "c0", message |-> Msg("user", <<>>),
     dupSeen |-> FALSE, savedUser |-> FALSE, resolved |-> NoPair, metadata |-> NoMetadata,
     rowsAtStart |-> 0, userIndex |-> 0, streamCalls |-> 0, config |-> None]

NoFailure == [thrown |-> None, error |-> None]

NoFinish ==
    [how |-> None, produced |-> FALSE, onFinish |-> FALSE, attempts |-> 0, failedSaves |-> 0,
     failedUpdates |-> 0, added |-> 0, afterUser |-> FALSE, withMetadata |-> FALSE, bumped |-> FALSE]

\* MODE_CONFIG; the vision entry is the one of a deployment that has it
MODE_CONFIG(mode) ==
    CASE mode = "fast" ->
             [model |-> "llama-3.1-8b-instant", maxTokens |-> 500, temperature |-> "0.5"]
      [] mode = "thinking" ->
             [model |-> "llama-3.3-70b-versatile", maxTokens |-> 4000, temperature |-> "0.7"]
      [] mode = "vision" ->
             [model |-> "meta-llama/llama-4-scout-17b-16e-instruct", maxTokens |-> 4000,
              temperature |-> "0.7"]
      [] OTHER -> [model |-> None, maxTokens |-> 0, temperature |-> None]

\* what the model has produced when the stream ends: a text, or nothing
Responses == {<<TextPart(Y)>>, <<>>}

VARIABLES convs, db, turns, failure, finished, updatedAt

chatVars == <<convs, db, turns, failure, finished, updatedAt>>

inFlight == Cardinality({t \in TurnIds : turns[t].pc # "idle"})

\* messageRepository.findOne({where: {conversationId, role: USER}, order: createdAt DESC})
lastUserRow(rows, conv) ==
    SelectSeq(rows, LAMBDA r : r.conversationId = conv /\ r.role = "user")

\* a comparison with the latest row of any role
isDuplicateOfLatestRow(rows, conv, text) ==
    rows # <<>> /\ rows[Len(rows)].content = text

isDuplicate(rows, conv, text) ==
    LET us == lastUserRow(rows, conv)
    IN  us # <<>> /\ us[Len(us)].content = text

\* createConversationWithFirstMessage (content is dto.firstMessage)
createConversationWithFirstMessage(firstMessage) ==
    /\ "c1" \notin convs
    /\ convs' = convs \cup {"c1"}
    /\ db' = Append(db, [conversationId |-> "c1", role |-> "user",
                         content |-> firstMessage, parts |-> <<TextPart(firstMessage)>>,
                         metadata |-> None])
    /\ updatedAt' = updatedAt + 1
    /\ UNCHANGED <<turns, failure, finished>>

\* verifyOwnership: the exception it throws, if any
verifyOwnership(conv, user) ==
    IF conv \notin convs THEN "NotFoundException"
    ELSE IF ownerOf(conv) # user THEN "ForbiddenException"
    ELSE None

\* the catch block of handleStreamingResponse: what the caller receives for an
\* exception thrown inside the try block
caught(exception) == "InternalServerErrorException"

\* handleStreamingResponse: verifyOwnership and normalize; a failure goes through
\* the catch block and the call is over
handleTurn(t, conv, user, m) ==
    /\ turns[t].pc = "idle"
    /\ Len(db) + 2 * (inFlight + 1) <= MaxRows
    /\ IF verifyOwnership(conv, user) = None
       THEN /\ turns' = [turns EXCEPT ![t] =
                   [NoTurn EXCEPT !.pc = "check", !.conv = conv, !.message = normalize(m),
                                  !.rowsAtStart = Len(db)]]
            /\ UNCHANGED failure
       ELSE /\ failure' = [thrown |-> IF conv \notin convs THEN "NotFoundException"
                                      ELSE "ForbiddenException",
                           error |-> caught(verifyOwnership(conv, user))]
            /\ UNCHANGED turns
    /\ UNCHANGED <<convs, db, finished, updatedAt>>

\* the position in rows of the latest user row of the conversation (0 if none)
lastUserIndex(rows, conv) ==
    LET is == {i \in 1..Len(rows) : rows[i].conversationId = conv /\ rows[i].role = "user"}
    IN  IF is = {} THEN 0 ELSE CHOOSE i \in is : \A k \in is : k <= i

\* handleStreamingResponse: read the latest user row, decide isDuplicate
turnCheck(t) ==
    /\ turns[t].pc = "check"
    /\ LET text == extractText(turns[t].message)
           dup  == isDuplicate(db, turns[t].conv, text)
           us   == SelectSeq(db, LAMBDA r : r.role = "user")
       IN  turns' = [turns EXCEPT
                ![t].pc = IF dup THEN "history" ELSE "save",
                ![t].dupSeen = (us # <<>> /\ us[Len(us)].content
                                   = join(extractParts(turns[t].message.parts))),
                ![t].userIndex = IF dup THEN lastUserIndex(db, turns[t].conv) ELSE 0]
    /\ UNCHANGED <<convs, db, failure, finished, updatedAt>>

\* saveUIMessage
turnSave(t) ==
    /\ turns[t].pc = "save"
    /\ db' = Append(db, Row(turns[t].conv, turns[t].message))
    /\ turns' = [turns EXCEPT ![t].pc = "history", ![t].savedUser = TRUE,
                              ![t].userIndex = Len(db) + 1]
    /\ UNCHANGED <<convs, failure, finished, updatedAt>>

\* AIService.hasImageContent over the history of the conversation
hasImageContent(rows, conv) ==
    \E i \in 1..Len(rows) :
        /\ rows[i].conversationId = conv
        /\ \E j \in 1..Len(rows[i].parts) : rows[i].parts[j].type = "image"

\* the effectiveMode streamResponseWithMode returns
actualEffectiveMode(hasImages, initialMode) == IF hasImages THEN "vision" ELSE initialMode

\* baseMetadata of handleStreamingResponse
baseMetadata(requested, actual) == [operationalMode |-> requested, effectiveMode |-> actual]

\* getUIMessages, mode resolution and streamResponseWithMode: the stream is open.
\* decision is what the classifier returns if it is asked; visionConfigured says
\* whether MODE_CONFIG of the deployment has the vision entry that
\* streamResponseWithMode reads (mode.config.ts has none: modeConfig.model throws)
turnDispatch(t, modeOverride, decision, visionConfigured) ==
    /\ turns[t].pc = "history"
    /\ LET requested == requestedModeOf(modeOverride)
           effective == IF requested \in Modes THEN requested ELSE decision
           hasImages == hasImageContent(db, turns[t].conv)
           actual    == actualEffectiveMode(hasImages, effective)
       IN  IF actual \in Modes \/ visionConfigured
           THEN /\ turns' = [turns EXCEPT
                       ![t].pc = "streaming",
                       ![t].resolved = [requested |-> requested, effective |-> effective],
                       ![t].metadata = baseMetadata(requested, actual),
                       ![t].streamCalls = @ + 1,
                       ![t].config = actual]
                /\ UNCHANGED failure
           ELSE /\ turns' = [turns EXCEPT ![t] = NoTurn]
                /\ failure' = [thrown |-> "TypeError", error |-> caught("TypeError")]
    /\ UNCHANGED <<convs, db, finished, updatedAt>>

\* saveAssistantResponseWithMode: the row is saved, then updatedAt is set; a
\* rejected save leaves both undone, a rejected update leaves the row
saveAssistantResponseWithMode(t, parts, saveOk, updateOk, how) ==
    /\ db' = IF saveOk
             THEN Append(db, [Row(turns[t].conv, Msg("assistant", parts))
                                  EXCEPT !.metadata = turns[t].metadata])
             ELSE db
    /\ updatedAt' = IF saveOk /\ updateOk THEN updatedAt + 1 ELSE updatedAt
    /\ finished' = [how |-> how, produced |-> parts # <<>>, onFinish |-> TRUE,
                    attempts |-> 1, failedSaves |-> IF saveOk THEN 0 ELSE 1,
                    failedUpdates |-> IF saveOk /\ ~updateOk THEN 1 ELSE 0,
                    added |-> Len(db') - Len(db),
                    afterUser |-> /\ Len(db') > Len(db)
                                  /\ db'[Len(db')].role = "assistant"
                                  /\ turns[t].userIndex \in 1..Len(db)
                                  /\ db'[turns[t].userIndex].role = "user",
                    withMetadata |-> /\ Len(db') > Len(db)
                                     /\ db'[Len(db')].metadata = turns[t].metadata,
                    bumped |-> updatedAt' > updatedAt]

\* an onFinish that saves the assistant row without the metadata of the turn
turnFinishWithoutMetadata(t, parts, saveOk, updateOk) ==
    /\ turns[t].pc = "streaming"
    /\ db' = IF saveOk
             THEN Append(db, [Row(turns[t].conv, Msg("assistant", parts))
                                  EXCEPT !.metadata = NoMetadata])
             ELSE db
    /\ updatedAt' = IF saveOk /\ updateOk THEN updatedAt + 1 ELSE updatedAt
    /\ finished' = [how |-> "finish", produced |-> parts # <<>>, onFinish |-> TRUE,
                    attempts |-> 1, failedSaves |-> IF saveOk THEN 0 ELSE 1,
                    failedUpdates |-> IF saveOk /\ ~updateOk THEN 1 ELSE 0,
                    added |-> Len(db') - Len(db),
                    afterUser |-> /\ Len(db') > Len(db)
                                  /\ db'[Len(db')].role = "assistant"
                                  /\ turns[t].userIndex \in 1..Len(db)
                                  /\ db'[turns[t].userIndex].role = "user",
                    withMetadata |-> /\ Len(db') > Len(db)
                                     /\ db'[Len(db')].metadata = turns[t].metadata,
                    bumped |-> updatedAt' > updatedAt]
    /\ turns' = [turns EXCEPT ![t] = NoTurn]
    /\ UNCHANGED <<convs, failure>>

\* the stream completes: onFinish awaits saveAssistantResponseWithMode once
turnFinish(t, parts, saveOk, updateOk) ==
    /\ turns[t].pc = "streaming"
    /\ saveAssistantResponseWithMode(t, parts, saveOk, updateOk, "finish")
    /\ turns' = [turns EXCEPT ![t] = NoTurn]
    /\ UNCHANGED <<convs, failure>>

\* the caller disconnects while the stream is open: the SDK calls onFinish with
\* what was produced so far, or does not call it at all
turnAbort(t, parts, onFinishCalled) ==
    /\ turns[t].pc = "streaming"
    /\ IF onFinishCalled
       THEN saveAssistantResponseWithMode(t, parts, TRUE, TRUE, "abort")
       ELSE /\ finished' = [NoFinish EXCEPT !.how = "abort", !.produced = parts # <<>>]
            /\ UNCHANGED <<db, updatedAt>>
    /\ turns' = [turns EXCEPT ![t] = NoTurn]
    /\ UNCHANGED <<convs, failure>>

(***************************************************************************)
(* AIService.streamResponseWithMode: the image limit, the conversion to    *)
(* model messages by the SDK, and the restoration of the image data.       *)
(*   history:           the messages passed in                             *)
(*   formattedMessages: after the image limit and toAISDKFormatAll         *)
(*   modelMessages:     after convertToModelMessages, then after the       *)
(*                      restoration (vpc = "restored")                     *)
(***************************************************************************)
MaxMsgs == 6
MAX_IMAGES == 5

Kinds == {"image", "text", "assistant"}
PLACEHOLDER == <<"[Previous Image Omitted]">>

\* the i-th message of a history: a user message with its own text and image
\* (at an even position, with a second image), a user message with text only,
\* or an assistant message
MessageAt(kind, i) ==
    CASE kind = "image" ->
             Msg("user", <<TextPart(<<ToString(i)>>), ImagePart(ToString(i))>>
                             \o (IF i % 2 = 0 THEN <<ImagePart(ToString(i + 10))>> ELSE <<>>))
      [] kind = "text" -> Msg("user", <<TextPart(<<ToString(i)>>)>>)
      [] OTHER -> Msg("assistant", <<TextPart(<<ToString(i)>>)>>)

HistoriesOfKinds ==
    UNION {{[i \in 1..n |-> MessageAt(ks[i], i)] : ks \in [1..n -> Kinds]} : n \in 0..MaxMsgs}

VARIABLES history, formattedMessages, modelMessages, vpc

visionVars == <<history, formattedMessages, modelMessages, vpc>>

hasImage(m) == \E i \in 1..Len(m.parts) : m.parts[i].type = "image"

\* the number of user messages with an image at index i or later
imagesFoundAt(msgs, i) ==
    Cardinality({j \in i..Len(msgs) : msgs[j].role = "user" /\ hasImage(msgs[j])})

omitImages(m) ==
    Msg(m.role, [i \in 1..Len(m.parts) |->
        IF m.parts[i].type = "image" THEN TextPart(PLACEHOLDER) ELSE m.parts[i]])

\* [...messagesWithSystem].reverse().map(...).reverse()
limitImages(msgs) ==
    [i \in 1..Len(msgs) |->
        IF msgs[i].role # "user" \/ ~hasImage(msgs[i]) THEN msgs[i]
        ELSE IF imagesFoundAt(msgs, i) <= MAX_IMAGES THEN msgs[i]
        ELSE omitImages(msgs[i])]

\* MessageUtils.toAISDKFormat: a file Part becomes a text Part
toAISDKFormat(m) ==
    Msg(m.role, [i \in 1..Len(m.parts) |->
        IF m.parts[i].type = "file" THEN TextPart(m.parts[i].text) ELSE m.parts[i]])

toAISDKFormatAll(msgs) == [i \in 1..Len(msgs) |-> toAISDKFormat(msgs[i])]

formatMessages ==
    /\ vpc = "input"
    /\ formattedMessages' =
           toAISDKFormatAll(limitImages(<<Msg("system", <<TextPart(<<"mode">>)>>)>> \o history))
    /\ vpc' = "formatted"
    /\ UNCHANGED <<history, modelMessages>>

\* convertToModelMessages of the SDK: every user message is kept, in order, with
\* its image Parts stripped; entries of other roles are kept, split in two,
\* dropped, or moved to the front
Variants == {"keep", "split", "drop", "hoist"}

stripImages(m) == [role |-> "user", content |-> SelectSeq(m.parts, LAMBDA q : q.type # "image")]

RECURSIVE convertToModelMessages(_, _)
convertToModelMessages(msgs, v) ==
    IF msgs = <<>> THEN <<>>
    ELSE LET m    == Head(msgs)
             rest == convertToModelMessages(Tail(msgs), v)
             same == [role |-> m.role, content |-> m.parts]
         IN  IF m.role = "user" THEN <<stripImages(m)>> \o rest
             ELSE IF v = "split" /\ m.role = "assistant"
                  THEN <<same, [role |-> "tool", content |-> <<>>]>> \o rest
             ELSE IF v = "drop" /\ m.role = "assistant" THEN rest
             ELSE IF v = "hoist" THEN rest
             ELSE <<same>> \o rest

hoisted(msgs) ==
    [i \in 1..Len(SelectSeq(msgs, LAMBDA m : m.role # "user")) |->
        LET m == SelectSeq(msgs, LAMBDA x : x.role # "user")[i]
        IN  [role |-> m.role, content |-> m.parts]]

convert(v) ==
    /\ vpc = "formatted"
    /\ modelMessages' =
           (IF v = "hoist" THEN hoisted(formattedMessages) ELSE <<>>)
               \o convertToModelMessages(formattedMessages, v)
    /\ vpc' = "converted"
    /\ UNCHANGED <<history, formattedMessages>>

\* the number of user messages before index i (userIdx when the map reaches i)
userIdxAt(msgs, i) == Cardinality({j \in 1..(i - 1) : msgs[j].role = "user"})

\* pairing by the index in the array (undefined past its end)
originalAtIndex(formatted, msgs, i) ==
    IF i <= Len(formatted) THEN formatted[i] ELSE Msg("user", <<>>)

\* the original user message the restoration pairs with modelMessages[i]
originalFor(formatted, msgs, i) ==
    SelectSeq(formatted, LAMBDA m : m.role = "user")[userIdxAt(msgs, i) + 1]

restoreImages ==
    /\ vpc = "converted"
    /\ modelMessages' = [i \in 1..Len(modelMessages) |->
           IF modelMessages[i].role # "user" THEN modelMessages[i]
           ELSE LET original == originalFor(formattedMessages, modelMessages, i)
                IN  IF ~hasImage(original) THEN modelMessages[i]
                    ELSE [modelMessages[i] EXCEPT !.content = original.parts]]
    /\ vpc' = "restored"
    /\ UNCHANGED <<history, formattedMessages>>

(***************************************************************************)
(* Context assembly of a turn: getUIMessages, the context-size check and   *)
(* resolveImageParts, in the order handleStreamingResponse runs them.      *)
(*   rows:            the Message rows of the conversation, oldest first   *)
(*   attachmentMap:   the Attachment rows of the conversation by id        *)
(*   systemPrompt:    the conversation's system prompt, empty without one  *)
(*   uiMessages:      what getUIMessages returned                          *)
(*   warned:          the context-size warning was logged                  *)
(*   reads:           which local image files fs.readFile could read       *)
(*   resolvedHistory: what resolveImageParts returned                      *)
(*   apc:             the position of the turn in this sequence            *)
(***************************************************************************)
maxDocumentTokens == 1
maxTotalContextTokens == 2
charsPerToken == 4

maxDocChars == maxDocumentTokens * charsPerToken
maxTotalChars == maxTotalContextTokens * charsPerToken

\* a text of n characters, each naming its position
Text(n) == [i \in 1..n |-> ToString(i)]

ExtractedTexts ==
    {Text(0), Text(maxDocChars - 1), Text(maxDocChars), Text(maxDocChars + 1),
     Text(2 * maxDocChars)}

NoAttachment == [extractionStatus |-> None, extractedText |-> <<>>, fileName |-> None]

\* an Attachment row as getUIMessages reads it: text only once SUCCESS
AttachmentRows ==
    {[extractionStatus |-> st, extractedText |-> <<>>, fileName |-> "f"] :
         st \in {"pending", "processing", "failed"}}
        \cup {[extractionStatus |-> "success", extractedText |-> t, fileName |-> "f"] :
                  t \in ExtractedTexts}

AssemblyIds == {"a1", "a2"}

\* image references: files under /uploads/, a web URL
LocalPaths == {"/uploads/1", "/uploads/2"}
WebUrl == "https://w"

DbRow(r, c, ps) == [role |-> r, content |-> c, parts |-> ps]

\* the conversations the assembly is run on
RowsChoices ==
    {<<DbRow("user", Text(3), <<TextPart(Text(3)), FilePart("a1", <<>>)>>)>>,
     <<DbRow("user", Text(2), <<TextPart(Text(2)), FilePart("a1", Text(1)),
                                FilePart("a2", <<>>)>>),
       DbRow("assistant", Text(3), <<>>)>>,
     <<DbRow("user", Text(1), <<TextPart(Text(1)), FilePart("a3", Text(2)),
                                ImagePart("/uploads/1")>>),
       DbRow("assistant", Text(2), <<TextPart(Text(2))>>),
       DbRow("user", Text(maxTotalChars), <<TextPart(Text(maxTotalChars)),
                                ImagePart("/uploads/2"), ImagePart(WebUrl),
                                FilePart("a2", <<>>)>>)>>,
     <<DbRow("user", Text(maxTotalChars - 1),
             <<ImagePart("/uploads/1"), TextPart(Text(maxTotalChars - 1)),
               ImagePart("/uploads/2")>>),
       DbRow("user", Text(2), <<FilePart("a1", <<>>), TextPart(Text(2))>>)>>}

VARIABLES rows, attachmentMap, systemPrompt, uiMessages, warned, reads, resolvedHistory, apc

assemblyVars ==
    <<rows, attachmentMap, systemPrompt, uiMessages, warned, reads, resolvedHistory, apc>>

fileContentHeader == <<"[File Content: f]:">>
truncationMarker == <<"... [Text Truncated]">>
waitPlaceholder == <<"[System: I am currently reading the file. Please wait a moment.]">>

\* a truncation that also cuts a text of exactly the budget
truncateAtBudget(text) ==
    IF Len(text) >= maxDocChars
    THEN SubSeq(text, 1, maxDocChars) \o truncationMarker
    ELSE text

\* text.length > maxDocChars ? text.substring(0, maxDocChars) + marker : text
truncate(text) ==
    IF Len(text) > maxDocChars
    THEN SubSeq(text, 1, maxDocChars) \o truncationMarker
    ELSE text

\* attachmentMap.get(part.attachmentId)
lookupAttachment(map, id) == IF id \in DOMAIN map THEN map[id] ELSE NoAttachment

\* a mapping of the Parts that shows the placeholder for every attachment that
\* is not SUCCESS
processPartWaitingForAll(part, map) ==
    IF part.type = "file" /\ part.attachmentId # None
    THEN LET attachment == lookupAttachment(map, part.attachmentId)
         IN  IF attachment = NoAttachment THEN part
             ELSE IF attachment.extractionStatus = "success"
                  THEN [part EXCEPT !.text = fileContentHeader \o truncate(attachment.extractedText)]
             ELSE [part EXCEPT !.text = waitPlaceholder]
    ELSE part

\* getUIMessages: msg.parts.map(part => ...)
processPart(part, map) ==
    IF part.type = "file" /\ part.attachmentId # None
    THEN LET attachment == lookupAttachment(map, part.attachmentId)
         IN  IF attachment = NoAttachment THEN part
             ELSE IF attachment.extractionStatus = "success"
                  THEN [part EXCEPT !.text = fileContentHeader \o truncate(attachment.extractedText)]
             ELSE IF attachment.extractionStatus = "processing"
                  THEN [part EXCEPT !.text = waitPlaceholder]
             ELSE part
    ELSE part

\* getUIMessages: a row with Parts is mapped Part by Part, a row without gets
\* one text Part of its content
toUIMessage(row, map) ==
    IF row.parts # <<>>
    THEN Msg(row.role, [j \in 1..Len(row.parts) |-> processPart(row.parts[j], map)])
    ELSE Msg(row.role, <<TextPart(row.content)>>)

\* getUIMessages: the system prompt first when the conversation has one
getUIMessages ==
    /\ apc = "input"
    /\ uiMessages' =
           (IF systemPrompt # <<>> THEN <<Msg("system", <<TextPart(systemPrompt)>>)>> ELSE <<>>)
               \o [i \in 1..Len(rows) |-> toUIMessage(rows[i], attachmentMap)]
    /\ apc' = "assembled"
    /\ UNCHANGED <<rows, attachmentMap, systemPrompt, warned, reads, resolvedHistory>>

RECURSIVE totalChars(_)
\* historyMessages.reduce((sum, msg) => sum + extractText(msg).length, 0)
totalChars(msgs) ==
    IF msgs = <<>> THEN 0 ELSE Len(extractText(Head(msgs))) + totalChars(Tail(msgs))

\* handleStreamingResponse: the context-size check logs and goes on
checkContextSize ==
    /\ apc = "assembled"
    /\ warned' = (totalChars(uiMessages) > maxTotalChars)
    /\ apc' = "checked"
    /\ UNCHANGED <<rows, attachmentMap, systemPrompt, uiMessages, reads, resolvedHistory>>

\* fs.readFile and the data URL built from what it read
dataUrl(path) == IF path = "/uploads/1" THEN "data:1" ELSE "data:2"

\* a resolution of one Part that lets the read error escape
resolvePartThrowing(part, ok) ==
    IF part.type = "image" /\ part.image \in LocalPaths
    THEN IF ok[part.image]
         THEN [threw |-> FALSE, value |-> [part EXCEPT !.image = dataUrl(part.image)]]
         ELSE [threw |-> TRUE, value |-> part]
    ELSE [threw |-> FALSE, value |-> part]

\* resolveImageParts: one Part, the read inside its own try
resolvePart(part, ok) ==
    IF part.type = "image" /\ part.image \in LocalPaths
    THEN IF ok[part.image]
         THEN [threw |-> FALSE, value |-> [part EXCEPT !.image = dataUrl(part.image)]]
         ELSE [threw |-> FALSE, value |-> part]
    ELSE [threw |-> FALSE, value |-> part]

\* resolveImageParts: Promise.all over the messages and over their Parts
resolveImageParts(ok) ==
    /\ apc = "checked"
    /\ reads' = ok
    /\ IF \E i \in 1..Len(uiMessages) : \E j \in 1..Len(uiMessages[i].parts) :
              resolvePart(uiMessages[i].parts[j], ok).threw
       THEN /\ apc' = "aborted"
            /\ UNCHANGED resolvedHistory
       ELSE /\ resolvedHistory' =
                   [i \in 1..Len(uiMessages) |->
                       Msg(uiMessages[i].role,
                           [j \in 1..Len(uiMessages[i].parts) |->
                               resolvePart(uiMessages[i].parts[j], ok).value])]
            /\ apc' = "resolved"
    /\ UNCHANGED <<rows, attachmentMap, systemPrompt, uiMessages, warned>>

(***************************************************************************)
(* Attachments and the user messages that reference them.  The             *)
(* conversations "c1" (of "u1") and "c2" (of "u2") exist; "c3" is the one  *)
(* createConversationWithFirstMessage creates.                             *)
(*   attachments[a]: the Attachment row: its conversation, the caller that *)
(*                   uploaded it, its messageId (0: none)                  *)
(*   objects:  the attachments whose bytes the storage backend holds       *)
(*   messages: the persisted user messages, with the attachment ids their  *)
(*             Parts carry; the id of a message is its position            *)
(*   linked:   the last write of a user message and the Attachment rows as *)
(*             they were before it                                         *)
(***************************************************************************)
NumLinkAtts == 2
MaxLinkMsgs == 2
LinkAttIds == 1..NumLinkAtts
LinkConvs == {"c1", "c2"}

conversationOwner(conv) == IF conv = "c1" THEN "u1" ELSE "u2"

NoLinkAtt == [exists |-> FALSE, conversationId |-> None, uploader |-> None, messageId |-> 0]

VARIABLES attachments, objects, messages, linked

linkVars == <<attachments, objects, messages, linked>>

NoLink == [op |-> None, message |-> 0, before |-> [a \in LinkAttIds |-> NoLinkAtt]]

\* AttachmentController.uploadFile and AttachmentService.upload: the file and the
\* conversationId must be present; userId is passed on and never read
uploadFile(caller, conv, a) ==
    /\ ~attachments[a].exists
    /\ \A b \in LinkAttIds : b < a => attachments[b].exists
    /\ objects' = objects \cup {a}
    /\ attachments' = [attachments EXCEPT ![a] =
            [exists |-> TRUE, conversationId |-> conv, uploader |-> caller, messageId |-> 0]]
    /\ UNCHANGED <<messages, linked>>

\* saveUIMessage: the row is saved, then UPDATE attachments SET messageId = id
\* WHERE id IN (the attachmentIds of the file and image Parts)
saveUIMessage(conv, refs) ==
    /\ Len(messages) < MaxLinkMsgs
    /\ messages' = Append(messages, [conversationId |-> conv, refs |-> refs])
    /\ attachments' = [a \in LinkAttIds |->
            IF a \in refs /\ attachments[a].exists
            THEN [attachments[a] EXCEPT !.messageId = Len(messages) + 1]
            ELSE attachments[a]]
    /\ linked' = [op |-> "saveUIMessage", message |-> Len(messages) + 1,
                  before |-> attachments]
    /\ UNCHANGED objects

\* createConversationWithFirstMessage with dto.parts: the row is saved with the
\* parts, the conversation is updated, nothing else is written
createWithParts(refs) ==
    /\ Len(messages) < MaxLinkMsgs
    /\ messages' = Append(messages, [conversationId |-> "c3", refs |-> refs])
    /\ linked' = [op |-> "createConversationWithFirstMessage",
                  message |-> Len(messages) + 1, before |-> attachments]
    /\ UNCHANGED <<attachments, objects>>

(***************************************************************************)
(* FileProcessorService: the Tesseract worker.                             *)
(*   worker:      this.worker, 0 for null, else the number of an engine    *)
(*   engines[e]:  "none" before createWorker has produced engine e, then   *)
(*                "running", then "terminated"                             *)
(*   extractions[x]: a call of the OCR step of processImage; w is the      *)
(*                worker getWorker returned to it                          *)
(*   shutdown:    onModuleDestroy: its position, the engine it terminates  *)
(*                and the number of engines that existed when it began     *)
(***************************************************************************)
NumExtractions == 3
ExtractionIds == 1..NumExtractions
EngineIds == 1..NumExtractions

NoExtraction == [pc |-> "idle", w |-> 0]
NoShutdown == [pc |-> "no", terminating |-> 0, existing |-> 0]

VARIABLES worker, engines, extractions, shutdown

ocrVars == <<worker, engines, extractions, shutdown>>

created == Cardinality({e \in EngineIds : engines[e] # "none"})

\* getWorker: if (!this.worker) the call starts createWorker and awaits it
getWorker(x) ==
    /\ extractions[x].pc = "idle"
    /\ shutdown.pc = "no"
    /\ extractions' = [extractions EXCEPT ![x] =
            IF worker = 0 THEN [pc |-> "creating", w |-> 0]
            ELSE [pc |-> "recognize", w |-> worker]]
    /\ UNCHANGED <<worker, engines, shutdown>>

\* getWorker after the await: this.worker = the new engine; return this.worker
workerCreated(x) ==
    /\ extractions[x].pc = "creating"
    /\ engines' = [engines EXCEPT ![created + 1] = "running"]
    /\ worker' = created + 1
    /\ extractions' = [extractions EXCEPT ![x] = [pc |-> "recognize", w |-> created + 1]]
    /\ UNCHANGED shutdown

\* worker.recognize(buffer), inside the try of processImage
recognize(x) ==
    /\ extractions[x].pc = "recognize"
    /\ extractions' = [extractions EXCEPT ![x].pc = "done"]
    /\ UNCHANGED <<worker, engines, shutdown>>

\* onModuleDestroy: if (this.worker) await this.worker.terminate()
onModuleDestroy ==
    /\ shutdown.pc = "no"
    /\ shutdown' = [pc |-> IF worker = 0 THEN "done" ELSE "terminating",
                    terminating |-> worker, existing |-> created]
    /\ UNCHANGED <<worker, engines, extractions>>

\* onModuleDestroy after the await: the engine is terminated; this.worker = null
workerTerminated ==
    /\ shutdown.pc = "terminating"
    /\ engines' = [engines EXCEPT ![shutdown.terminating] = "terminated"]
    /\ worker' = 0
    /\ shutdown' = [shutdown EXCEPT !.pc = "done"]
    /\ UNCHANGED extractions

(***************************************************************************)
(* MessageUtils on a legacy message: normalize, then extractText.          *)
(*   legacy:     the content string of a message that has no parts         *)
(*   normalized: what normalize returned                                   *)
(*   text:       what extractText returned for it                          *)
(***************************************************************************)
MaxLegacyLen == 3
Chars == {"a", "b", " "}

\* the strings of at most n characters
Strings(n) == UNION {[1..k -> Chars] : k \in 0..n}

VARIABLES legacy, normalized, text, rpc

roundTripVars == <<legacy, normalized, text, rpc>>

normalizeLegacy ==
    /\ rpc = "input"
    /\ normalized' = normalize(Incoming(<<>>, legacy))
    /\ rpc' = "normalized"
    /\ UNCHANGED <<legacy, text>>

extractNormalized ==
    /\ rpc = "normalized"
    /\ text' = extractText(normalized)
    /\ rpc' = "extracted"
    /\ UNCHANGED <<legacy, normalized>>

(***************************************************************************)
(* Specifications.                                                         *)
(***************************************************************************)
\* what one chat request brings to the resolver: the override of its body and
\* the operationalMode column of its conversation
NoRequest == [modeOverride |-> None, operationalMode |-> None]

\* an override that is none of the three modes, in two spellings
InvalidOverrides == {"turbo", "FAST"}

Requests ==
    [modeOverride : Overrides \cup InvalidOverrides, operationalMode : {None, "thinking"}]

VARIABLES request

requestVars == <<request>>

vars == <<modeVars, attachVars, chatVars, visionVars, requestVars, assemblyVars, linkVars, ocrVars, roundTripVars>>

\* the services after construction: empty cache, no rows, no call in progress
Init ==
    /\ cache = <<>>
    /\ now = 0
    /\ pending = [c \in Calls |-> Idle]
    /\ last = NoCall
    /\ op = NoOp
    /\ atts = [a \in AttIds |-> NoAtt]
    /\ jobs = [a \in AttIds |-> NoJob]
    /\ stored = {}
    /\ convs = {}
    /\ db = <<>>
    /\ turns = [t \in TurnIds |-> NoTurn]
    /\ failure = NoFailure
    /\ finished = NoFinish
    /\ updatedAt = 0
    /\ history = <<>>
    /\ formattedMessages = <<>>
    /\ modelMessages = <<>>
    /\ vpc = "input"
    /\ request = NoRequest
    /\ rows = <<>>
    /\ attachmentMap = [a \in AssemblyIds |-> NoAttachment]
    /\ systemPrompt = <<>>
    /\ uiMessages = <<>>
    /\ warned = FALSE
    /\ reads = [f \in LocalPaths |-> TRUE]
    /\ resolvedHistory = <<>>
    /\ apc = "input"
    /\ attachments = [a \in LinkAttIds |-> NoLinkAtt]
    /\ objects = {}
    /\ messages = <<>>
    /\ linked = NoLink
    /\ worker = 0
    /\ engines = [e \in EngineIds |-> "none"]
    /\ extractions = [x \in ExtractionIds |-> NoExtraction]
    /\ shutdown = NoShutdown
    /\ legacy = <<>>
    /\ normalized = Msg("user", <<>>)
    /\ text = <<>>
    /\ rpc = "input"

\* the same, with a legacy message to normalize
InitRoundTrip ==
    /\ cache = <<>>
    /\ now = 0
    /\ pending = [c \in Calls |-> Idle]
    /\ last = NoCall
    /\ op = NoOp
    /\ atts = [a \in AttIds |-> NoAtt]
    /\ jobs = [a \in AttIds |-> NoJob]
    /\ stored = {}
    /\ convs = {}
    /\ db = <<>>
    /\ turns = [t \in TurnIds |-> NoTurn]
    /\ failure = NoFailure
    /\ finished = NoFinish
    /\ updatedAt = 0
    /\ history = <<>>
    /\ formattedMessages = <<>>
    /\ modelMessages = <<>>
    /\ vpc = "input"
    /\ request = NoRequest
    /\ rows = <<>>
    /\ attachmentMap = [a \in AssemblyIds |-> NoAttachment]
    /\ systemPrompt = <<>>
    /\ uiMessages = <<>>
    /\ warned = FALSE
    /\ reads = [f \in LocalPaths |-> TRUE]
    /\ resolvedHistory = <<>>
    /\ apc = "input"
    /\ attachments = [a \in LinkAttIds |-> NoLinkAtt]
    /\ objects = {}
    /\ messages = <<>>
    /\ linked = NoLink
    /\ worker = 0
    /\ engines = [e \in EngineIds |-> "none"]
    /\ extractions = [x \in ExtractionIds |-> NoExtraction]
    /\ shutdown = NoShutdown
    /\ legacy \in Strings(MaxLegacyLen)
    /\ normalized = Msg("user", <<>>)
    /\ text = <<>>
    /\ rpc = "input"

\* the same, with a chat request whose mode is to be resolved
InitRequest ==
    /\ cache = <<>>
    /\ now = 0
    /\ pending = [c \in Calls |-> Idle]
    /\ last = NoCall
    /\ op = NoOp
    /\ atts = [a \in AttIds |-> NoAtt]
    /\ jobs = [a \in AttIds |-> NoJob]
    /\ stored = {}
    /\ convs = {}
    /\ db = <<>>
    /\ turns = [t \in TurnIds |-> NoTurn]
    /\ failure = NoFailure
    /\ finished = NoFinish
    /\ updatedAt = 0
    /\ history = <<>>
    /\ formattedMessages = <<>>
    /\ modelMessages = <<>>
    /\ vpc = "input"
    /\ request \in Requests
    /\ rows = <<>>
    /\ attachmentMap = [a \in AssemblyIds |-> NoAttachment]
    /\ systemPrompt = <<>>
    /\ uiMessages = <<>>
    /\ warned = FALSE
    /\ reads = [f \in LocalPaths |-> TRUE]
    /\ resolvedHistory = <<>>
    /\ apc = "input"
    /\ attachments = [a \in LinkAttIds |-> NoLinkAtt]
    /\ objects = {}
    /\ messages = <<>>
    /\ linked = NoLink
    /\ worker = 0
    /\ engines = [e \in EngineIds |-> "none"]
    /\ extractions = [x \in ExtractionIds |-> NoExtraction]
    /\ shutdown = NoShutdown
    /\ legacy = <<>>
    /\ normalized = Msg("user", <<>>)
    /\ text = <<>>
    /\ rpc = "input"

\* the same, at the entry of streamResponseWithMode with a history
InitVision ==
    /\ cache = <<>>
    /\ now = 0
    /\ pending = [c \in Calls |-> Idle]
    /\ last = NoCall
    /\ op = NoOp
    /\ atts = [a \in AttIds |-> NoAtt]
    /\ jobs = [a \in AttIds |-> NoJob]
    /\ stored = {}
    /\ convs = {}
    /\ db = <<>>
    /\ turns = [t \in TurnIds |-> NoTurn]
    /\ failure = NoFailure
    /\ finished = NoFinish
    /\ updatedAt = 0
    /\ history \in HistoriesOfKinds
    /\ formattedMessages = <<>>
    /\ modelMessages = <<>>
    /\ vpc = "input"
    /\ request = NoRequest
    /\ rows = <<>>
    /\ attachmentMap = [a \in AssemblyIds |-> NoAttachment]
    /\ systemPrompt = <<>>
    /\ uiMessages = <<>>
    /\ warned = FALSE
    /\ reads = [f \in LocalPaths |-> TRUE]
    /\ resolvedHistory = <<>>
    /\ apc = "input"
    /\ attachments = [a \in LinkAttIds |-> NoLinkAtt]
    /\ objects = {}
    /\ messages = <<>>
    /\ linked = NoLink
    /\ worker = 0
    /\ engines = [e \in EngineIds |-> "none"]
    /\ extractions = [x \in ExtractionIds |-> NoExtraction]
    /\ shutdown = NoShutdown
    /\ legacy = <<>>
    /\ normalized = Msg("user", <<>>)
    /\ text = <<>>
    /\ rpc = "input"

\* the same, at the entry of getUIMessages with a conversation and its attachments
InitAssembly ==
    /\ cache = <<>>
    /\ now = 0
    /\ pending = [c \in Calls |-> Idle]
    /\ last = NoCall
    /\ op = NoOp
    /\ atts = [a \in AttIds |-> NoAtt]
    /\ jobs = [a \in AttIds |-> NoJob]
    /\ stored = {}
    /\ convs = {}
    /\ db = <<>>
    /\ turns = [t \in TurnIds |-> NoTurn]
    /\ failure = NoFailure
    /\ finished = NoFinish
    /\ updatedAt = 0
    /\ history = <<>>
    /\ formattedMessages = <<>>
    /\ modelMessages = <<>>
    /\ vpc = "input"
    /\ request = NoRequest
    /\ rows \in RowsChoices
    /\ attachmentMap \in [AssemblyIds -> AttachmentRows \cup {NoAttachment}]
    /\ systemPrompt \in {<<>>, Text(2)}
    /\ uiMessages = <<>>
    /\ warned = FALSE
    /\ reads = [f \in LocalPaths |-> TRUE]
    /\ resolvedHistory = <<>>
    /\ apc = "input"
    /\ attachments = [a \in LinkAttIds |-> NoLinkAtt]
    /\ objects = {}
    /\ messages = <<>>
    /\ linked = NoLink
    /\ worker = 0
    /\ engines = [e \in EngineIds |-> "none"]
    /\ extractions = [x \in ExtractionIds |-> NoExtraction]
    /\ shutdown = NoShutdown
    /\ legacy = <<>>
    /\ normalized = Msg("user", <<>>)
    /\ text = <<>>
    /\ rpc = "input"

NextCache ==
    \/ \E k \in CacheKeys : cacheGet(k) /\ UNCHANGED <<attachVars, chatVars, visionVars, requestVars, assemblyVars, linkVars, ocrVars, roundTripVars>>
    \/ \E k \in CacheKeys, m \in Modes :
           cacheSet(k, m) /\ UNCHANGED <<attachVars, chatVars, visionVars, requestVars, assemblyVars, linkVars, ocrVars, roundTripVars>>
    \/ sweep /\ UNCHANGED <<attachVars, chatVars, visionVars, requestVars, assemblyVars, linkVars, ocrVars, roundTripVars>>
    \/ \E t \in Times : tick(t) /\ UNCHANGED <<attachVars, chatVars, visionVars, requestVars, assemblyVars, linkVars, ocrVars, roundTripVars>>

SpecCache ==
    Init /\ [][NextCache]_vars

NextModes ==
    \/ \E c \in Calls, h \in Histories, o \in Overrides :
           resolveMode(c, h, o) /\ UNCHANGED <<attachVars, chatVars, visionVars, requestVars, assemblyVars, linkVars, ocrVars, roundTripVars>>
    \/ \E c \in Calls, a \in Answers :
           classifyAnswer(c, a) /\ UNCHANGED <<attachVars, chatVars, visionVars, requestVars, assemblyVars, linkVars, ocrVars, roundTripVars>>
    \/ \E c \in Calls : classifyError(c) /\ UNCHANGED <<attachVars, chatVars, visionVars, requestVars, assemblyVars, linkVars, ocrVars, roundTripVars>>
    \/ \E c \in Calls : classifyTimeout(c) /\ UNCHANGED <<attachVars, chatVars, visionVars, requestVars, assemblyVars, linkVars, ocrVars, roundTripVars>>
    \/ sweep /\ UNCHANGED <<attachVars, chatVars, visionVars, requestVars, assemblyVars, linkVars, ocrVars, roundTripVars>>
    \/ \E t \in Times : tick(t) /\ UNCHANGED <<attachVars, chatVars, visionVars, requestVars, assemblyVars, linkVars, ocrVars, roundTripVars>>

SpecModes ==
    Init /\ [][NextModes]_vars

\* the resolver called with the override of the request, one call at a time
NextRequest ==
    \/ \E c \in Calls, h \in Histories :
           c = 1 /\ resolveMode(c, h, request.modeOverride)
               /\ UNCHANGED <<attachVars, chatVars, visionVars, requestVars, assemblyVars, linkVars, ocrVars, roundTripVars>>
    \/ \E c \in Calls, a \in Answers :
           classifyAnswer(c, a) /\ UNCHANGED <<attachVars, chatVars, visionVars, requestVars, assemblyVars, linkVars, ocrVars, roundTripVars>>
    \/ \E c \in Calls : classifyError(c) /\ UNCHANGED <<attachVars, chatVars, visionVars, requestVars, assemblyVars, linkVars, ocrVars, roundTripVars>>
    \/ \E c \in Calls : classifyTimeout(c) /\ UNCHANGED <<attachVars, chatVars, visionVars, requestVars, assemblyVars, linkVars, ocrVars, roundTripVars>>
    \/ \E t \in Times : tick(t) /\ UNCHANGED <<attachVars, chatVars, visionVars, requestVars, assemblyVars, linkVars, ocrVars, roundTripVars>>

SpecRequest ==
    InitRequest /\ [][NextRequest]_vars

NextAssembly ==
    \/ getUIMessages
           /\ UNCHANGED <<modeVars, attachVars, chatVars, visionVars, requestVars, linkVars, ocrVars, roundTripVars>>
    \/ checkContextSize
           /\ UNCHANGED <<modeVars, attachVars, chatVars, visionVars, requestVars, linkVars, ocrVars, roundTripVars>>
    \/ \E ok \in [LocalPaths -> BOOLEAN] :
           resolveImageParts(ok)
               /\ UNCHANGED <<modeVars, attachVars, chatVars, visionVars, requestVars, linkVars, ocrVars, roundTripVars>>

SpecAssembly ==
    InitAssembly /\ [][NextAssembly]_vars

NextAttach ==
    \/ \E a \in AttIds, ft \in FileTypes :
           upload(a, ft) /\ UNCHANGED <<modeVars, chatVars, visionVars, requestVars, assemblyVars, linkVars, ocrVars, roundTripVars>>
    \/ \E a \in AttIds, ok \in BOOLEAN :
           jobBegin(a, ok) /\ UNCHANGED <<modeVars, chatVars, visionVars, requestVars, assemblyVars, linkVars, ocrVars, roundTripVars>>
    \/ \E a \in AttIds, thumbOk \in BOOLEAN, extractOk \in BOOLEAN :
           jobProcess(a, thumbOk, extractOk) /\ UNCHANGED <<modeVars, chatVars, visionVars, requestVars, assemblyVars, linkVars, ocrVars, roundTripVars>>
    \/ \E a \in AttIds : jobFindOne(a) /\ UNCHANGED <<modeVars, chatVars, visionVars, requestVars, assemblyVars, linkVars, ocrVars, roundTripVars>>
    \/ \E a \in AttIds, ok \in BOOLEAN :
           jobUploadThumbnail(a, ok) /\ UNCHANGED <<modeVars, chatVars, visionVars, requestVars, assemblyVars, linkVars, ocrVars, roundTripVars>>
    \/ \E a \in AttIds, ok \in BOOLEAN :
           jobFinish(a, ok) /\ UNCHANGED <<modeVars, chatVars, visionVars, requestVars, assemblyVars, linkVars, ocrVars, roundTripVars>>
    \/ \E a \in AttIds, ok \in BOOLEAN :
           jobCatch(a, ok) /\ UNCHANGED <<modeVars, chatVars, visionVars, requestVars, assemblyVars, linkVars, ocrVars, roundTripVars>>
    \/ \E a \in AttIds : deleteAttachment(a) /\ UNCHANGED <<modeVars, chatVars, visionVars, requestVars, assemblyVars, linkVars, ocrVars, roundTripVars>>

SpecAttach ==
    Init /\ [][NextAttach]_vars

\* one step of processFileAsync for attachment a when every repository update
\* succeeds: the extractor returns or throws, the thumbnail upload may reject
jobStep(a) ==
    /\ \/ jobBegin(a, TRUE)
       \/ \E thumbOk \in BOOLEAN, extractOk \in BOOLEAN : jobProcess(a, thumbOk, extractOk)
       \/ jobFindOne(a)
       \/ \E ok \in BOOLEAN : jobUploadThumbnail(a, ok)
       \/ jobFinish(a, TRUE)
       \/ jobCatch(a, TRUE)
    /\ UNCHANGED <<modeVars, chatVars, visionVars, requestVars, assemblyVars, linkVars, ocrVars, roundTripVars>>

NextAttachFair ==
    \/ \E a \in AttIds, f \in FileTypes :
           upload(a, f) /\ UNCHANGED <<modeVars, chatVars, visionVars, requestVars, assemblyVars, linkVars, ocrVars, roundTripVars>>
    \/ \E a \in AttIds : jobStep(a)
    \/ \E a \in AttIds :
           deleteAttachment(a) /\ UNCHANGED <<modeVars, chatVars, visionVars, requestVars, assemblyVars, linkVars, ocrVars, roundTripVars>>

\* the event loop runs every continuation of processFileAsync that is ready
SpecAttachFair ==
    Init /\ [][NextAttachFair]_vars /\ \A a \in AttIds : WF_vars(jobStep(a))

NextChat ==
    \/ \E f \in {X, Y} :
           createConversationWithFirstMessage(f)
               /\ UNCHANGED <<modeVars, attachVars, visionVars, requestVars, assemblyVars, linkVars, ocrVars, roundTripVars>>
    \/ \E t \in TurnIds, conv \in ConvIds, user \in Users, m \in Inputs :
           handleTurn(t, conv, user, m) /\ UNCHANGED <<modeVars, attachVars, visionVars, requestVars, assemblyVars, linkVars, ocrVars, roundTripVars>>
    \/ \E t \in TurnIds : turnCheck(t) /\ UNCHANGED <<modeVars, attachVars, visionVars, requestVars, assemblyVars, linkVars, ocrVars, roundTripVars>>
    \/ \E t \in TurnIds : turnSave(t) /\ UNCHANGED <<modeVars, attachVars, visionVars, requestVars, assemblyVars, linkVars, ocrVars, roundTripVars>>
    \/ \E t \in TurnIds, o \in Overrides, d \in Modes, v \in BOOLEAN :
           turnDispatch(t, o, d, v) /\ UNCHANGED <<modeVars, attachVars, visionVars, requestVars, assemblyVars, linkVars, ocrVars, roundTripVars>>
    \/ \E t \in TurnIds :
           turnFinish(t, <<TextPart(Y)>>, TRUE, TRUE)
               /\ UNCHANGED <<modeVars, attachVars, visionVars, requestVars, assemblyVars, linkVars, ocrVars, roundTripVars>>

SpecChat ==
    Init /\ [][NextChat]_vars

\* the turns of one client that sends its next turn when the previous one is over
NextResend ==
    \/ \E f \in {X, Y} :
           createConversationWithFirstMessage(f)
               /\ UNCHANGED <<modeVars, attachVars, visionVars, requestVars, assemblyVars, linkVars, ocrVars, roundTripVars>>
    \/ \E t \in TurnIds, conv \in ConvIds, user \in Users, m \in Inputs :
           t = 1 /\ inFlight = 0 /\ handleTurn(t, conv, user, m)
               /\ UNCHANGED <<modeVars, attachVars, visionVars, requestVars, assemblyVars, linkVars, ocrVars, roundTripVars>>
    \/ \E t \in TurnIds : turnCheck(t) /\ UNCHANGED <<modeVars, attachVars, visionVars, requestVars, assemblyVars, linkVars, ocrVars, roundTripVars>>
    \/ \E t \in TurnIds : turnSave(t) /\ UNCHANGED <<modeVars, attachVars, visionVars, requestVars, assemblyVars, linkVars, ocrVars, roundTripVars>>
    \/ \E t \in TurnIds, o \in Overrides, d \in Modes, v \in BOOLEAN :
           turnDispatch(t, o, d, v) /\ UNCHANGED <<modeVars, attachVars, visionVars, requestVars, assemblyVars, linkVars, ocrVars, roundTripVars>>
    \/ \E t \in TurnIds :
           turnFinish(t, <<TextPart(Y)>>, TRUE, TRUE)
               /\ UNCHANGED <<modeVars, attachVars, visionVars, requestVars, assemblyVars, linkVars, ocrVars, roundTripVars>>

SpecResend ==
    Init /\ [][NextResend]_vars

\* the rows the conversation may have when a turn of NextStream has ended
MaxStreamRows == 3

\* the messages of the owner: a text, the same text with an image, another text
StreamInputs ==
    {Incoming(<<TextPart(X)>>, <<>>), Incoming(<<TextPart(X), ImagePart("img")>>, <<>>),
     Incoming(<<TextPart(Y)>>, <<>>)}

\* the turns of the owner of the conversation, one after the other, with every
\* way a stream can end and every outcome of the store
NextStream ==
    \/ \E f \in {X, Y} :
           createConversationWithFirstMessage(f)
               /\ UNCHANGED <<modeVars, attachVars, visionVars, requestVars, assemblyVars, linkVars, ocrVars, roundTripVars>>
    \/ \E t \in TurnIds, m \in StreamInputs :
           t = 1 /\ inFlight = 0 /\ Len(db) + 2 <= MaxStreamRows /\ handleTurn(t, "c1", "u1", m)
               /\ UNCHANGED <<modeVars, attachVars, visionVars, requestVars, assemblyVars, linkVars, ocrVars, roundTripVars>>
    \/ \E t \in TurnIds : turnCheck(t) /\ UNCHANGED <<modeVars, attachVars, visionVars, requestVars, assemblyVars, linkVars, ocrVars, roundTripVars>>
    \/ \E t \in TurnIds : turnSave(t) /\ UNCHANGED <<modeVars, attachVars, visionVars, requestVars, assemblyVars, linkVars, ocrVars, roundTripVars>>
    \/ \E t \in TurnIds, o \in Overrides, d \in Modes, v \in BOOLEAN :
           turnDispatch(t, o, d, v) /\ UNCHANGED <<modeVars, attachVars, visionVars, requestVars, assemblyVars, linkVars, ocrVars, roundTripVars>>
    \/ \E t \in TurnIds, r \in Responses, saveOk \in BOOLEAN, updateOk \in BOOLEAN :
           turnFinish(t, r, saveOk, updateOk)
               /\ UNCHANGED <<modeVars, attachVars, visionVars, requestVars, assemblyVars, linkVars, ocrVars, roundTripVars>>
    \/ \E t \in TurnIds, r \in Responses, called \in BOOLEAN :
           turnAbort(t, r, called)
               /\ UNCHANGED <<modeVars, attachVars, visionVars, requestVars, assemblyVars, linkVars, ocrVars, roundTripVars>>

SpecStream ==
    Init /\ [][NextStream]_vars

\* the ids a message can carry: those of the attachments uploaded so far
uploaded == {a \in LinkAttIds : attachments[a].exists}

\* uploads by either caller and the writes of user messages
NextLink ==
    \/ \E caller \in Users, conv \in LinkConvs, a \in LinkAttIds :
           uploadFile(caller, conv, a)
               /\ UNCHANGED <<modeVars, attachVars, chatVars, visionVars, requestVars, assemblyVars, ocrVars, roundTripVars>>
    \/ \E conv \in LinkConvs, refs \in SUBSET uploaded :
           saveUIMessage(conv, refs)
               /\ UNCHANGED <<modeVars, attachVars, chatVars, visionVars, requestVars, assemblyVars, ocrVars, roundTripVars>>
    \/ \E refs \in SUBSET uploaded :
           createWithParts(refs)
               /\ UNCHANGED <<modeVars, attachVars, chatVars, visionVars, requestVars, assemblyVars, ocrVars, roundTripVars>>

SpecLink ==
    Init /\ [][NextLink]_vars

\* image extractions that reach the OCR step, and the shutdown of the module
NextOcr ==
    \/ \E x \in ExtractionIds :
           getWorker(x)
               /\ UNCHANGED <<modeVars, attachVars, chatVars, visionVars, requestVars, assemblyVars, linkVars, roundTripVars>>
    \/ \E x \in ExtractionIds :
           workerCreated(x)
               /\ UNCHANGED <<modeVars, attachVars, chatVars, visionVars, requestVars, assemblyVars, linkVars, roundTripVars>>
    \/ \E x \in ExtractionIds :
           recognize(x)
               /\ UNCHANGED <<modeVars, attachVars, chatVars, visionVars, requestVars, assemblyVars, linkVars, roundTripVars>>
    \/ onModuleDestroy
           /\ UNCHANGED <<modeVars, attachVars, chatVars, visionVars, requestVars, assemblyVars, linkVars, roundTripVars>>
    \/ workerTerminated
           /\ UNCHANGED <<modeVars, attachVars, chatVars, visionVars, requestVars, assemblyVars, linkVars, roundTripVars>>

SpecOcr ==
    Init /\ [][NextOcr]_vars

NextRoundTrip ==
    \/ normalizeLegacy
           /\ UNCHANGED <<modeVars, attachVars, chatVars, visionVars, requestVars, assemblyVars, linkVars, ocrVars>>
    \/ extractNormalized
           /\ UNCHANGED <<modeVars, attachVars, chatVars, visionVars, requestVars, assemblyVars, linkVars, ocrVars>>

SpecRoundTrip ==
    InitRoundTrip /\ [][NextRoundTrip]_vars

NextVision ==
    \/ formatMessages /\ UNCHANGED <<modeVars, attachVars, chatVars, requestVars, assemblyVars, linkVars, ocrVars, roundTripVars>>
    \/ \E v \in Variants : convert(v) /\ UNCHANGED <<modeVars, attachVars, chatVars, requestVars, assemblyVars, linkVars, ocrVars, roundTripVars>>
    \/ restoreImages /\ UNCHANGED <<modeVars, attachVars, chatVars, requestVars, assemblyVars, linkVars, ocrVars, roundTripVars>>

SpecVision ==
    InitVision /\ [][NextVision]_vars

(***************************************************************************)
(* Properties.                                                             *)
(***************************************************************************)
StatusSequences ==
    {<<>>, <<"pending">>, <<"pending", "processing">>, <<"pending", "success">>,
     <<"pending", "failed">>, <<"processing">>, <<"processing", "success">>,
     <<"processing", "failed">>, <<"success">>, <<"failed">>,
     <<"pending", "processing", "success">>, <<"pending", "processing", "failed">>}

\* C1: the statuses an Attachment row is written with, in order, form a
\* subsequence of PENDING -> PROCESSING -> {SUCCESS | FAILED}: no status is
\* written twice, none after SUCCESS or FAILED, and the row's status is the last
\* one written.
C1_StatusForwardOnly ==
    \A a \in AttIds :
        /\ atts[a].seen \in StatusSequences
        /\ atts[a].exists # "no" => atts[a].status = atts[a].seen[Len(atts[a].seen)]

\* C1 witness: a processing job failed after PROCESSING and is over.
C1_Witness ==
    \E a \in AttIds :
        /\ jobs[a].pc = "done"
        /\ atts[a].seen = <<"pending", "processing", "failed">>

\* C2: the cache never holds more than MAX_CACHE_SIZE entries, whatever the
\* interleaving of get, set and sweep, including set on a key already present.
C2_CacheBounded == Len(cache) <= MAX_CACHE_SIZE

\* C2 witness: set was called on a key already present while the cache was full.
C2_Witness ==
    /\ op.name = "set"
    /\ op.full
    /\ op.present
    /\ indexOf(cache, op.key) # 0

userContents ==
    [i \in 1..Len(SelectSeq(db, LAMBDA r : r.role = "user")) |->
        SelectSeq(db, LAMBDA r : r.role = "user")[i].content]

\* C3: a turn whose text equals the content of the latest user row when the
\* turn reads it saves no user row; with turns sent one after the other, no two
\* successive user rows have the same content.
C3_DuplicateNotSaved ==
    /\ \A t \in TurnIds : turns[t].dupSeen => ~turns[t].savedUser
    /\ \A i \in 1..(Len(userContents) - 1) : userContents[i] # userContents[i + 1]

\* C3 witness: the same text is resent for the second time and skipped again.
C3_Witness ==
    /\ Len(db) = 3
    /\ Len(userContents) = 1
    /\ \E t \in TurnIds : turns[t].dupSeen /\ turns[t].pc = "streaming"

\* C4: a resolution whose requested mode is fast or thinking returns that mode
\* and invokes neither the classifier, nor the cache, nor the model.
C4_ConcreteModeDirect ==
    last.requested \in {"fast", "thinking"} =>
        /\ last.effective = last.requested
        /\ last.classified = 0
        /\ last.gets = 0
        /\ last.sets = 0
        /\ last.modelCalls = 0

\* C4 witness: thinking was requested and returned while the cache held entries.
C4_Witness ==
    /\ last.requested = "thinking"
    /\ last.effective = "thinking"
    /\ cache # <<>>

\* C5 as stated: after a model error or timeout, classify returns fast and its
\* own steps have left the cache as it was before the call.
C5_AsStated ==
    last.outcome \in {"error", "timeout"} =>
        /\ last.effective = "fast"
        /\ ~last.ownChange

\* C5 amended: after a model error or timeout, classify returns fast, has set
\* no entry, and has changed the cache at most by get's removal of the expired
\* entry stored under the query's own key.
C5_FailureNotCached ==
    last.outcome \in {"error", "timeout"} =>
        /\ last.effective = "fast"
        /\ last.sets = 0
        /\ last.lazyOnly

\* C5 witness: the model call timed out in a call whose lookup had removed the
\* expired entry of its key.
C5_Witness ==
    /\ last.outcome = "timeout"
    /\ last.effective = "fast"
    /\ last.ownChange

\* C6: a classification of a history without user message, or whose latest
\* user text has fewer than SHORT_QUERY_THRESHOLD characters after trimming,
\* returns fast with no cache get, no cache set and no model call.
C6_ShortQueryFast ==
    (last.classified = 1 /\ last.brief) =>
        /\ last.effective = "fast"
        /\ last.gets = 0
        /\ last.sets = 0
        /\ last.modelCalls = 0

\* C6 witness: a short query was classified while the cache held entries.
C6_Witness ==
    /\ last.outcome = "short"
    /\ last.brief
    /\ cache # <<>>

\* C7: a classification that finds a live entry stored under the trimmed text
\* of the latest user message returns the mode of that entry and calls no model.
C7_CacheHitSameMode ==
    last.lookup # None =>
        /\ last.effective = last.lookup
        /\ last.modelCalls = 0

\* C7 witness: a later classification returned thinking from the cache.
C7_Witness ==
    /\ last.outcome = "hit"
    /\ last.lookup = "thinking"
    /\ last.effective = "thinking"

\* C8 as stated: an attachment whose PDF or document extractor threw does not
\* end in SUCCESS.
C8_ExtractorFailureFails ==
    \A a \in AttIds :
        (jobs[a].pc = "done" /\ jobs[a].threw /\ atts[a].exists = "yes") =>
            atts[a].status # "success"

IMAGE_WINDOW == 3

imageBearing(msgs) ==
    {i \in 1..Len(msgs) :
        /\ msgs[i].role = "user"
        /\ \E j \in 1..Len(msgs[i].content) : msgs[i].content[j].type = "image"}

\* C9 as stated: in the list handed to the model at most IMAGE_WINDOW user
\* messages carry an image Part.
C9_ImageWindow ==
    vpc = "restored" => Cardinality(imageBearing(modelMessages)) <= IMAGE_WINDOW

\* C10: after the restoration the user messages of the list handed to the model
\* are, position by position, the user messages before the conversion: one
\* that had an image carries exactly its own Parts, one that had none carries
\* no image.
C10_ImagesRestored ==
    vpc = "restored" =>
        LET before == SelectSeq(formattedMessages, LAMBDA m : m.role = "user")
            after  == SelectSeq(modelMessages, LAMBDA m : m.role = "user")
        IN  /\ Len(after) = Len(before)
            /\ \A k \in 1..Len(before) :
                   IF \E j \in 1..Len(before[k].parts) : before[k].parts[j].type = "image"
                   THEN after[k].content = before[k].parts
                   ELSE \A j \in 1..Len(after[k].content) :
                            after[k].content[j].type # "image"

\* C10 witness: an image was restored to a user message whose index in the
\* converted list is not its index in the list before the conversion.
C10_Witness ==
    /\ vpc = "restored"
    /\ \E i \in imageBearing(modelMessages) :
           \/ i > Len(formattedMessages)
           \/ formattedMessages[i].parts # modelMessages[i].content

C12_OwnershipErrorsSurface ==
    failure.thrown \in {"ForbiddenException", "NotFoundException"} =>
        failure.error = failure.thrown

\* C13: a get of a key that directly follows a set of that key, no more than
\* TTL_MS later, returns the mode that was set.
C13_SetThenGet ==
    (op.name = "get" /\ op.follows /\ op.elapsed <= TTL_MS) => op.value = op.expected

\* C13 witness: a get returned the mode set just before it, some time after the
\* set and with the cache full.
C13_Witness ==
    /\ op.name = "get"
    /\ op.follows
    /\ op.elapsed > 0
    /\ op.full
    /\ op.value = "thinking"

\* C14: a get of a key stored with an expiry before now returns absent and
\* leaves the Map without the key.
C14_ExpiredNeverReturned ==
    (op.name = "get" /\ op.stale) =>
        /\ op.value = None
        /\ indexOf(cache, op.key) = 0

\* C14 witness: a get found its key expired and still stored (no sweep had
\* removed it) while the cache was not full.
C14_Witness ==
    /\ op.name = "get"
    /\ op.stale
    /\ ~op.full
    /\ op.value = None

\* C15: a set of a new key on a full cache removes exactly the first entry in
\* insertion order and appends the new one; a get leaves the order of the
\* entries it keeps as it was.
C15_FifoEviction ==
    [][/\ \A k \in CacheKeys, m \in Modes :
              (cacheSet(k, m) /\ Len(cache) = MAX_CACHE_SIZE /\ indexOf(cache, k) = 0) =>
                  /\ Len(cache') = MAX_CACHE_SIZE
                  /\ \A i \in 1..(MAX_CACHE_SIZE - 1) : cache'[i] = cache[i + 1]
                  /\ cache'[MAX_CACHE_SIZE].key = k
                  /\ cache'[MAX_CACHE_SIZE].mode = m
       /\ \A k \in CacheKeys :
              cacheGet(k) =>
                  cache' = SelectSeq(cache, LAMBDA e : \E i \in 1..Len(cache') : cache'[i] = e)
      ]_vars

\* C15 witness: a set of a new key found the cache full and the key is now the
\* last entry of a full cache.
C15_Witness ==
    /\ op.name = "set"
    /\ op.full
    /\ ~op.present
    /\ Len(cache) = MAX_CACHE_SIZE
    /\ cache[MAX_CACHE_SIZE].key = op.key

\* the letters of COMPLEX in lower case
complexLower == <<"c", "o", "m", "p", "l", "e", "x">>

\* the answer contains COMPLEX, whatever the case of each letter
mentionsComplex(response) ==
    \E i \in 1..(Len(response) - 6) :
        \A j \in 1..7 : response[i + j - 1] \in {COMPLEX[j], complexLower[j]}

\* C16: when the model answers in time, classify returns thinking if the answer
\* contains COMPLEX in any case and fast otherwise, and when it returns the
\* cache maps the key of the query to that decision.
C16_AnswerDecidesAndIsCached ==
    [][\A c \in Calls, a \in Answers :
           classifyAnswer(c, a) =>
               /\ last'.effective = IF mentionsComplex(a) THEN "thinking" ELSE "fast"
               /\ liveMode(cache', md5(pending[c].query), now) = last'.effective
      ]_vars

\* C16 witness: an answer made classify return thinking, and the decision is
\* in a full cache.
C16_Witness ==
    /\ last.outcome = "answer"
    /\ last.effective = "thinking"
    /\ Len(cache) = MAX_CACHE_SIZE
    /\ cache[Len(cache)].mode = "thinking"

hierarchyRequested(r) ==
    IF r.modeOverride # None /\ r.modeOverride # "" THEN r.modeOverride
    ELSE IF r.operationalMode # None /\ r.operationalMode # "" THEN r.operationalMode
    ELSE "auto"

\* C18: the requested mode is the override when one of the three modes is
\* given, else the mode stored on the conversation when there is one, else auto.
C18_RequestedFollowsHierarchy ==
    request.modeOverride \notin InvalidOverrides =>
        /\ \A c \in Calls :
               pending[c].pc # "idle" => pending[c].requested = hierarchyRequested(request)
        /\ last.outcome # None => last.requested = hierarchyRequested(request)

\* C19: upload has returned the Attachment, with status PENDING and its bytes
\* stored and its row saved, before the extraction job takes its first step:
\* whatever the job is doing, and if it never finishes, upload has returned.
C19_UploadDoesNotWait ==
    \A a \in AttIds :
        /\ jobs[a].pc # "none" => jobs[a].returned = "pending" /\ atts[a].exists # "no"
        /\ jobs[a].pc = "start" /\ atts[a].exists = "yes" =>
               atts[a].status = "pending" /\ <<"file", a>> \in stored

\* C19 witness: upload has returned PENDING and the job is in the middle of the
\* extraction.
C19_Witness ==
    \E a \in AttIds :
        /\ jobs[a].returned = "pending"
        /\ jobs[a].pc = "process"
        /\ atts[a].status = "processing"

systemOffset == IF systemPrompt # <<>> THEN 1 ELSE 0

PartsAt == UNION {{<<i, j>> : j \in 1..Len(rows[i].parts)} : i \in 1..Len(rows)}

storedPart(ij) == rows[ij[1]].parts[ij[2]]
assembledPart(ij) == uiMessages[systemOffset + ij[1]].parts[ij[2]]
statusOf(part) == lookupAttachment(attachmentMap, part.attachmentId).extractionStatus
extractedOf(part) == lookupAttachment(attachmentMap, part.attachmentId).extractedText

Min(a, b) == IF a <= b THEN a ELSE b

\* C21: getUIMessages returns one message per row whatever the state of the
\* attachments, and each file Part depends on the status of its attachment
\* only: SUCCESS gives the header and the extracted text, PROCESSING exactly
\* the wait placeholder, and PENDING, FAILED or no attachment of that id the
\* Part as stored.
C21_AssemblyByStatus ==
    apc # "input" =>
        /\ Len(uiMessages) = systemOffset + Len(rows)
        /\ \A ij \in PartsAt :
               LET kept   == storedPart(ij)
                   out    == assembledPart(ij)
               IN  IF kept.type # "file" THEN out = kept
                   ELSE CASE statusOf(kept) = "success" ->
                                 /\ out = [kept EXCEPT !.text = out.text]
                                 /\ Head(out.text) = Head(fileContentHeader)
                                 /\ includes(out.text,
                                        SubSeq(extractedOf(kept), 1,
                                               Min(Len(extractedOf(kept)), maxDocChars)))
                          [] statusOf(kept) = "processing" ->
                                 out = [kept EXCEPT !.text = waitPlaceholder]
                          [] OTHER -> out = kept

\* C21 witness: one assembly met a PROCESSING attachment, a FAILED one and a
\* Part whose attachment does not exist.
C21_Witness ==
    /\ apc = "resolved"
    /\ \E ij \in PartsAt : assembledPart(ij).text = waitPlaceholder
    /\ \E ij \in PartsAt :
           /\ storedPart(ij).type = "file"
           /\ storedPart(ij).attachmentId \notin AssemblyIds
           /\ assembledPart(ij) = storedPart(ij)
    /\ \E a \in AssemblyIds : attachmentMap[a].extractionStatus = "processing"
    /\ \E a \in AssemblyIds : attachmentMap[a].extractionStatus = "failed"

\* what follows the header in the text of an assembled file Part
inlined(part) == SubSeq(part.text, Len(fileContentHeader) + 1, Len(part.text))

\* C22: for a SUCCESS attachment the inlined text is the first
\* min(length, maxDocChars) characters of the extracted text, followed by the
\* truncation marker if and only if the extracted text is longer than
\* maxDocChars.
C22_TruncatedToBudget ==
    apc # "input" =>
        \A ij \in PartsAt :
            (storedPart(ij).type = "file" /\ statusOf(storedPart(ij)) = "success") =>
                LET t    == extractedOf(storedPart(ij))
                    n    == Min(Len(t), maxDocChars)
                    body == inlined(assembledPart(ij))
                IN  /\ Len(body) >= n
                    /\ \A k \in 1..n : body[k] = t[k]
                    /\ Len(t) > maxDocChars =>
                           /\ Len(body) = maxDocChars + Len(truncationMarker)
                           /\ body[Len(body)] = truncationMarker[1]
                    /\ Len(t) <= maxDocChars => Len(body) = Len(t)

\* C22 witness: an extracted text of twice the budget was cut at the budget and
\* marked, next to one of exactly the budget that was inlined whole.
C22_Witness ==
    /\ apc # "input"
    /\ \E ij \in PartsAt :
           /\ storedPart(ij).type = "file"
           /\ statusOf(storedPart(ij)) = "success"
           /\ Len(extractedOf(storedPart(ij))) = 2 * maxDocChars
           /\ Len(inlined(assembledPart(ij))) = maxDocChars + 1
    /\ \E ij \in PartsAt :
           /\ storedPart(ij).type = "file"
           /\ statusOf(storedPart(ij)) = "success"
           /\ Len(extractedOf(storedPart(ij))) = maxDocChars
           /\ inlined(assembledPart(ij)) = extractedOf(storedPart(ij))

RECURSIVE partsChars(_)
\* the characters of the text Parts and of the text inlined into file Parts
partsChars(ps) ==
    IF ps = <<>> THEN 0
    ELSE (IF Head(ps).type \in {"text", "file"} THEN Len(Head(ps).text) ELSE 0)
             + partsChars(Tail(ps))

RECURSIVE assembledChars(_)
\* the characters of all the text toAISDKFormat hands to the model
assembledChars(msgs) ==
    IF msgs = <<>> THEN 0 ELSE partsChars(Head(msgs).parts) + assembledChars(Tail(msgs))

\* C23 as stated: the context-size warning is logged exactly when the summed
\* length of all assembled text, the text inlined into file Parts included,
\* exceeds maxTotalChars, and the check drops no message.
C23_WarnsOnAllAssembledText ==
    apc \in {"checked", "resolved"} =>
        /\ warned <=> assembledChars(uiMessages) > maxTotalChars
        /\ Len(uiMessages) = systemOffset + Len(rows)

\* the image Parts of the list handed to streamText
imageParts(msgs) ==
    UNION {{<<i, j>> : j \in {k \in 1..Len(msgs[i].content) : msgs[i].content[k].type = "image"}} :
               i \in 1..Len(msgs)}

ResolvedAt ==
    UNION {{<<i, j>> : j \in 1..Len(uiMessages[i].parts)} : i \in 1..Len(uiMessages)}

\* C25: resolveImageParts never aborts the turn; a local image whose file could
\* not be read keeps its Part as it was, every local image whose file was read
\* carries inline data, and every other Part is unchanged.
C25_OneBadImageDegrades ==
    /\ apc # "aborted"
    /\ apc = "resolved" =>
           /\ Len(resolvedHistory) = Len(uiMessages)
           /\ \A ij \in ResolvedAt :
                  LET p == uiMessages[ij[1]].parts[ij[2]]
                      q == resolvedHistory[ij[1]].parts[ij[2]]
                  IN  IF p.type = "image" /\ p.image \in LocalPaths
                      THEN IF reads[p.image]
                           THEN /\ q = [p EXCEPT !.image = q.image]
                                /\ q.image \in {"data:1", "data:2"}
                                /\ (q.image = "data:1") <=> (p.image = "/uploads/1")
                           ELSE q = p
                      ELSE q = p

\* C25 witness: in one message the read of one image failed and the other
\* image was resolved.
C25_Witness ==
    /\ apc = "resolved"
    /\ \E ij \in ResolvedAt, kl \in ResolvedAt :
           /\ ij[1] = kl[1]
           /\ resolvedHistory[ij[1]].parts[ij[2]].image \in LocalPaths
           /\ ~reads[resolvedHistory[ij[1]].parts[ij[2]].image]
           /\ resolvedHistory[kl[1]].parts[kl[2]].image \in {"data:1", "data:2"}

(***************************************************************************)
(* The end of a turn: the streaming call, the assistant row, cancellation  *)
(* and a failing store (SpecStream).                                       *)
(***************************************************************************)

\* C26: every turn that passed the ownership check makes exactly one streaming
\* call, after the user row was saved or skipped and after mode resolution, with
\* the model name, token limit and temperature configured for the effective mode
\* that ModeResolver returned; no such turn ends in an exception instead of a call.
C26_OneCallWithResolvedConfig ==
    /\ failure.thrown # "TypeError"
    /\ \A t \in TurnIds :
           turns[t].pc = "streaming" =>
               /\ turns[t].streamCalls = 1
               /\ turns[t].resolved.effective \in Modes
               /\ MODE_CONFIG(turns[t].config) = MODE_CONFIG(turns[t].resolved.effective)

C28_CancelledTurnIsMarked ==
    finished.how = "abort" =>
        IF finished.produced
        THEN finished.added = 1 /\ ~finished.withMetadata
        ELSE finished.added = 0

\* C29: a completed stream whose save was rejected has made at least a second
\* attempt to save.
C29_PersistIsRetried ==
    (finished.how = "finish" /\ finished.failedSaves > 0) => finished.attempts >= 2

\* C30: every row of the store has a non-empty parts sequence or a non-empty
\* content.
C30_PartsOrText ==
    \A i \in 1..Len(db) : db[i].parts # <<>> \/ db[i].content # <<>>

(***************************************************************************)
(* Attachments and the messages that reference them (SpecLink).            *)
(***************************************************************************)

\* C31: every attachment that a persisted user message references has an owning
\* message, and after the write of a user message every attachment it references
\* is owned by that message.
C31_ReferencedAttachmentsAreLinked ==
    /\ \A i \in 1..Len(messages) :
           \A a \in messages[i].refs : attachments[a].messageId # 0
    /\ linked.op # None =>
           \A a \in messages[linked.message].refs :
               attachments[a].messageId = linked.message

\* C38: an attachment row or a storage object exists only for an upload by the
\* owner of the conversation it was uploaded to.
C38_UploadOnlyByOwner ==
    \A a \in LinkAttIds :
        (attachments[a].exists \/ a \in objects) =>
            attachments[a].uploader = conversationOwner(attachments[a].conversationId)

\* C39: the write of a user message changes the messageId only of attachments
\* that the message references and that belong to the conversation of the message.
C39_LinkOnlyOwnConversation ==
    linked.op = "saveUIMessage" =>
        \A a \in LinkAttIds :
            attachments[a].messageId # linked.before[a].messageId =>
                /\ a \in messages[linked.message].refs
                /\ attachments[a].conversationId = messages[linked.message].conversationId

(***************************************************************************)
(* The Tesseract worker (SpecOcr).                                         *)
(***************************************************************************)

\* C32: an engine is created only by an extraction that found no worker, and
\* when onModuleDestroy has run, every engine that existed when it began is
\* terminated.
C32_EveryEngineIsTerminated ==
    /\ (\A x \in ExtractionIds : extractions[x].pc = "idle") => created = 0
    /\ shutdown.pc = "done" =>
           \A e \in 1..shutdown.existing : engines[e] = "terminated"

(***************************************************************************)
(* Deletion and termination of the extraction job (SpecAttach).            *)
(***************************************************************************)

\* C33: once deleteAttachment has completed for an attachment, its row, its
\* storage object and its thumbnail are absent, whatever the extraction job of
\* the attachment does afterwards.
C33_DeletedStaysAbsent ==
    \A a \in AttIds :
        atts[a].exists = "deleted" =>
            /\ <<"file", a>> \notin stored
            /\ <<"thumbnail", a>> \notin stored

\* C40: with every continuation of the job eventually run, every extractor call
\* returning or throwing and every repository update succeeding, an uploaded
\* attachment eventually has the status SUCCESS or FAILED (or has been deleted).
C40_ExtractionTerminates ==
    \A a \in AttIds :
        (atts[a].exists = "yes") ~>
            (atts[a].exists = "deleted" \/ atts[a].status \in {"success", "failed"})

\* C40 witness: the job of an attachment that still exists is over after the
\* three writes PENDING, PROCESSING and SUCCESS or FAILED.
C40_Witness ==
    \E a \in AttIds :
        /\ jobs[a].pc = "done" /\ atts[a].exists = "yes"
        /\ Len(atts[a].seen) = 3
        /\ atts[a].status \in {"success", "failed"}

(***************************************************************************)
(* MessageUtils (SpecRoundTrip).                                           *)
(***************************************************************************)

\* C34: for every string s, the text extracted from the normalized form of a
\* legacy message with content s is s.
C34_LegacyRoundTrip ==
    /\ rpc # "input" => normalized = Msg("user", <<TextPart(legacy)>>)
    /\ rpc = "extracted" => text = legacy

\* C34 witness: the round trip of a string that begins and ends with a blank.
C34_Witness ==
    /\ rpc = "extracted"
    /\ Len(legacy) = 3 /\ legacy[1] = " " /\ legacy[2] = "a" /\ legacy[3] = " "
    /\ text = legacy

(***************************************************************************)
(* The duplicate check of a turn (SpecChat, SpecResend).                   *)
(***************************************************************************)

\* C35: of two turns that are in flight together on the same conversation with
\* the same text, at most one has saved a user row.
C35_ConcurrentSameTextSavedOnce ==
    \A t \in TurnIds, u \in TurnIds :
        (/\ t # u
         /\ turns[t].pc # "idle" /\ turns[u].pc # "idle"
         /\ turns[t].conv = turns[u].conv
         /\ extractText(turns[t].message) = extractText(turns[u].message))
            => ~(turns[t].savedUser /\ turns[u].savedUser)

\* C36: while the stream of a turn is open, with turns sent one after the
\* other, the last row of the conversation, which is the last message of the
\* history the model was given, is a user row with the text of the turn.
C36_HistoryEndsWithTheTurn ==
    \A t \in TurnIds :
        turns[t].pc = "streaming" =>
            /\ db[Len(db)].role = "user"
            /\ db[Len(db)].content = extractText(turns[t].message)

\* C37: a turn that went on without saving a user row has the same Part
\* sequence as the user row it was found to be a duplicate of.
C37_SkippedOnlyWhenPartsEqual ==
    \A t \in TurnIds :
        (turns[t].pc \in {"history", "streaming"} /\ ~turns[t].savedUser) =>
            db[turns[t].userIndex].parts = turns[t].message.parts

====
